---- MODULE Spec2Model ----
(***************************************************************************)
(* Smart Climate (firmfreez/ha-smart-climate): the decision engine         *)
(* (engine.py) and the coordinator's control cycle (coordinator.py).       *)
(*                                                                         *)
(* Temperatures and offsets are integers in tenths of a degree Celsius     *)
(* (220 is 22.0 C, 5 is 0.5 C); times are integer clock ticks.  An absent  *)
(* value (Python None) of a nullable number is the number None below.      *)
(***************************************************************************)
EXTENDS Integers, Sequences, FiniteSets, TLC

VARIABLES
    np_in,          \* arguments of a call of next_phase_and_offset; n counts the calls before it
    np_out,         \* its result <<phase, offset>>, or <<>> before the call
    fw_in,          \* arguments of a call of filter_weather_sensitive
    fw_out,         \* whether it has returned, and the list it returned
    pf_in,          \* the engine function called on its own (fn) and its arguments
    pf_out,         \* whether it has returned, and what it returned
    now,            \* dt_util.utcnow()
    options,        \* the effective value of every option read through _opt
    room_enabled,   \* _overrides[CONF_ROOM_ENABLED] over the stored option
    room_targets,   \* _overrides[CONF_PER_ROOM_TARGETS] over the stored option
    sensor,         \* hass.states of each room's temperature sensor
    hass,           \* hass.states of each climate entity: state and setpoint
    pending,        \* service calls a climate entity has not carried out yet
    outdoor,        \* hass.states of the outdoor temperature source
    _rooms,         \* self._rooms: the configured rooms, in the order of the dict
    _shared_map,    \* self._shared_map: climate id -> the rooms that list it as shared
    runtime,        \* self._runtime: room id -> RoomRuntime
    device_state,   \* self._device_state: entity id -> last_action_time
    lock,           \* self._lock: its holder, or NoHolder
    pc,             \* where each caller of _async_update_data stands
    cyc,            \* the locals of each caller's _async_run_control_cycle
    calls,          \* the service calls issued since the running cycle began
    arbitration,    \* what _async_apply_shared did for each shared device with demands
    data,           \* self.data: the report of the last cycle that returned
    last_call,      \* per entity, when the last service call to it was issued
    cycles,         \* control cycles started so far
    changes         \* changes of the environment so far

vars == <<np_in, np_out, fw_in, fw_out, pf_in, pf_out, now, options, room_enabled, room_targets, sensor, hass,
          pending, outdoor, _rooms, _shared_map, runtime, device_state, lock, pc, cyc, calls, arbitration,
          data, last_call, cycles, changes>>

engineVars == <<np_in, np_out, fw_in, fw_out, pf_in, pf_out>>

cycleVars == <<now, options, room_enabled, room_targets, sensor, hass, pending,
               outdoor, _rooms, _shared_map, runtime, device_state, lock, pc, cyc, calls, arbitration,
               data, last_call, cycles, changes>>

----------------------------------------------------------------------------
(* Values                                                                  *)

None == -1

PHASE_IDLE == "idle"
PHASE_BOOST == "boost"
PHASE_HOLD == "hold"
Phases == {PHASE_IDLE, PHASE_BOOST, PHASE_HOLD}

TYPE_NORMAL == "normal"
TYPE_FAST == "fast"
TYPE_EXTREME == "extreme"
ControlTypes == {TYPE_NORMAL, TYPE_FAST, TYPE_EXTREME}

Abs(x) == IF x < 0 THEN 0 - x ELSE x
Min2(a, b) == IF a <= b THEN a ELSE b
Max2(a, b) == IF a >= b THEN a ELSE b
SetMax(S) == CHOOSE x \in S : \A y \in S : y <= x
SetMin(S) == CHOOSE x \in S : \A y \in S : x <= y
Range(s) == {s[i] : i \in 1..Len(s)}

----------------------------------------------------------------------------
(* engine.py                                                               *)

within_target(current, target, tolerance) ==
    Abs(current - target) <= tolerance

\* The drift has to be more than delta past the edge of the band.
should_reenter_boost_Strict(current, target, tolerance, delta, is_heating) ==
    IF is_heating
    THEN current < (target - tolerance) - delta
    ELSE current > (target + tolerance) + delta

should_reenter_boost(current, target, tolerance, delta, is_heating) ==
    IF is_heating
    THEN current <= (target - tolerance) - delta
    ELSE current >= (target + tolerance) + delta

\* A transition that tests the phase before reached_target.
next_phase_and_offset_PhaseFirst(control_type, phase, reached_target, current_offset, step_offset, max_offset, elapsed_boost_seconds, t_time) ==
    IF phase \in {PHASE_IDLE, PHASE_HOLD}
    THEN IF reached_target THEN <<PHASE_HOLD, current_offset>>
         ELSE IF control_type = TYPE_NORMAL
              THEN <<PHASE_BOOST, Min2(step_offset, max_offset)>>
              ELSE <<PHASE_BOOST, max_offset>>
    ELSE IF reached_target THEN <<PHASE_HOLD, 0>>
         ELSE <<phase, current_offset>>

\* A transition whose ramp is not clamped and ignores the elapsed time.
next_phase_and_offset_NoClamp(control_type, phase, reached_target, current_offset, step_offset, max_offset, elapsed_boost_seconds, t_time) ==
    IF reached_target THEN <<PHASE_HOLD, 0>>
    ELSE IF phase \in {PHASE_IDLE, PHASE_HOLD}
    THEN IF control_type = TYPE_NORMAL
         THEN <<PHASE_BOOST, step_offset>>
         ELSE <<PHASE_BOOST, max_offset>>
    ELSE IF control_type = TYPE_NORMAL
         THEN <<PHASE_BOOST, current_offset + step_offset>>
         ELSE <<PHASE_BOOST, max_offset>>

\* A transition in which fast and extreme ramp like normal.
next_phase_and_offset_AllRamp(control_type, phase, reached_target, current_offset, step_offset, max_offset, elapsed_boost_seconds, t_time) ==
    IF reached_target THEN <<PHASE_HOLD, 0>>
    ELSE IF phase \in {PHASE_IDLE, PHASE_HOLD}
    THEN <<PHASE_BOOST, Min2(step_offset, max_offset)>>
    ELSE IF elapsed_boost_seconds >= t_time
         THEN <<PHASE_BOOST, Min2(current_offset + step_offset, max_offset)>>
         ELSE <<phase, current_offset>>

\* A transition that leaves a room in hold until the caller has set its phase to
\* boost.
next_phase_and_offset_HoldKept(control_type, phase, reached_target, current_offset, step_offset, max_offset, elapsed_boost_seconds, t_time) ==
    IF reached_target THEN <<PHASE_HOLD, 0>>
    ELSE IF phase = PHASE_IDLE
    THEN IF control_type = TYPE_NORMAL
         THEN <<PHASE_BOOST, Min2(step_offset, max_offset)>>
         ELSE <<PHASE_BOOST, max_offset>>
    ELSE IF phase = PHASE_BOOST /\ control_type = TYPE_NORMAL
            /\ elapsed_boost_seconds >= t_time
    THEN <<PHASE_BOOST, Min2(current_offset + step_offset, max_offset)>>
    ELSE IF phase = PHASE_BOOST /\ control_type \in {TYPE_FAST, TYPE_EXTREME}
    THEN <<PHASE_BOOST, max_offset>>
    ELSE <<phase, current_offset>>

\* A transition whose offset stays where the entry into boost put it.
next_phase_and_offset_NoRamp(control_type, phase, reached_target, current_offset, step_offset, max_offset, elapsed_boost_seconds, t_time) ==
    IF reached_target THEN <<PHASE_HOLD, 0>>
    ELSE IF phase \in {PHASE_IDLE, PHASE_HOLD}
    THEN IF control_type = TYPE_NORMAL
         THEN <<PHASE_BOOST, Min2(step_offset, max_offset)>>
         ELSE <<PHASE_BOOST, max_offset>>
    ELSE IF phase = PHASE_BOOST /\ control_type \in {TYPE_FAST, TYPE_EXTREME}
    THEN <<PHASE_BOOST, max_offset>>
    ELSE <<phase, current_offset>>

next_phase_and_offset(control_type, phase, reached_target, current_offset, step_offset, max_offset, elapsed_boost_seconds, t_time) ==
    IF reached_target THEN <<PHASE_HOLD, 0>>
    ELSE IF phase \in {PHASE_IDLE, PHASE_HOLD}
    THEN IF control_type = TYPE_NORMAL
         THEN <<PHASE_BOOST, Min2(step_offset, max_offset)>>
         ELSE <<PHASE_BOOST, max_offset>>
    ELSE IF phase = PHASE_BOOST /\ control_type = TYPE_NORMAL
            /\ elapsed_boost_seconds >= t_time
    THEN <<PHASE_BOOST, Min2(current_offset + step_offset, max_offset)>>
    ELSE IF phase = PHASE_BOOST /\ control_type \in {TYPE_FAST, TYPE_EXTREME}
    THEN <<PHASE_BOOST, max_offset>>
    ELSE <<phase, current_offset>>

\* Without air conditioning, category 3 falls back to category 1.
select_category_DegradeToOne(diff, thresholds, ac_allowed) ==
    LET category == IF diff < thresholds.category2_diff THEN 1
                    ELSE IF diff < thresholds.category3_diff THEN 2
                    ELSE 3
    IN IF category = 3 /\ ~ac_allowed THEN 1 ELSE category

\* ac_allowed is not looked at.
select_category_NoDegrade(diff, thresholds, ac_allowed) ==
    IF diff < thresholds.category2_diff THEN 1
    ELSE IF diff < thresholds.category3_diff THEN 2
    ELSE 3

select_category(diff, thresholds, ac_allowed) ==
    LET category == IF diff < thresholds.category2_diff THEN 1
                    ELSE IF diff < thresholds.category3_diff THEN 2
                    ELSE 3
    IN IF category = 3 /\ ~ac_allowed THEN 2 ELSE category

\* The entity's limits are not applied to target plus or minus offset.
compute_setpoint_NoClamp(target, is_heating, control_type, offset, climate_min_temp, climate_max_temp) ==
    IF control_type = TYPE_EXTREME /\ is_heating /\ climate_max_temp # None
    THEN climate_max_temp
    ELSE IF control_type = TYPE_EXTREME /\ ~is_heating /\ climate_min_temp # None
    THEN climate_min_temp
    ELSE IF is_heating THEN target + offset ELSE target - offset

\* Profile extreme is treated as the other profiles are.
compute_setpoint_NoExtreme(target, is_heating, control_type, offset, climate_min_temp, climate_max_temp) ==
    LET raw0 == IF is_heating THEN target + offset ELSE target - offset
        raw1 == IF climate_min_temp # None THEN Max2(raw0, climate_min_temp) ELSE raw0
    IN IF climate_max_temp # None THEN Min2(raw1, climate_max_temp) ELSE raw1

compute_setpoint(target, is_heating, control_type, offset, climate_min_temp, climate_max_temp) ==
    IF control_type = TYPE_EXTREME /\ is_heating /\ climate_max_temp # None
    THEN climate_max_temp
    ELSE IF control_type = TYPE_EXTREME /\ ~is_heating /\ climate_min_temp # None
    THEN climate_min_temp
    ELSE LET raw0 == IF is_heating THEN target + offset ELSE target - offset
             raw1 == IF climate_min_temp # None THEN Max2(raw0, climate_min_temp) ELSE raw0
         IN IF climate_max_temp # None THEN Min2(raw1, climate_max_temp) ELSE raw1

mode_hvac(is_heating) == IF is_heating THEN "heat" ELSE "cool"

\* list(dict.fromkeys(selected)): the first occurrence of each element, in order.
RECURSIVE Dedupe(_)
Dedupe(s) ==
    IF s = <<>> THEN <<>>
    ELSE LET front == Dedupe(SubSeq(s, 1, Len(s) - 1))
             x == s[Len(s)]
         IN IF x \in Range(front) THEN front ELSE Append(front, x)

\* Only the list of the active category is taken.
merge_categories_OnlyActive(category_1, category_2, category_3, active_category) ==
    LET n == Min2(Max2(active_category, 1), 3)
    IN Dedupe(IF n = 1 THEN category_1 ELSE IF n = 2 THEN category_2 ELSE category_3)

merge_categories(category_1, category_2, category_3, active_category) ==
    LET n == Min2(Max2(active_category, 1), 3)
        selected == category_1 \o (IF n >= 2 THEN category_2 ELSE <<>>)
                               \o (IF n >= 3 THEN category_3 ELSE <<>>)
    IN Dedupe(selected)

\* The entity ids that start with "climate." and those that start with "script.".
Climates == {"climate.floor", "climate.ac1"}
Scripts == {"script.heater1_on", "script.heater1_off", "script.fan1_on", "script.fan1_off",
            "script.old_on", "script.old_off"}
Entities == Climates \cup Scripts

\* Every member of the set is removed, whatever the entity id starts with.
filter_weather_sensitive_AnyKind(entity_ids, weather_sensitive_climates, is_outdoor_allowed) ==
    IF is_outdoor_allowed THEN entity_ids
    ELSE LET Keep(e) == e \notin weather_sensitive_climates
         IN SelectSeq(entity_ids, Keep)

filter_weather_sensitive(entity_ids, weather_sensitive_climates, is_outdoor_allowed) ==
    IF is_outdoor_allowed THEN entity_ids
    ELSE LET Keep(e) == ~(e \in Climates /\ e \in weather_sensitive_climates)
         IN SelectSeq(entity_ids, Keep)

\* engine.should_activate_dumb_device is imported by coordinator.py and tested by
\* tests/test_dumb_devices.py; its body is not among the sources.
should_activate_dumb_device(room_category, device_category, room_is_heating, device_type, participation) ==
    /\ participation # "off"
    /\ device_type = (IF room_is_heating THEN "heat" ELSE "cool")
    /\ device_category <= room_category

RECURSIVE SeqSum(_)
SeqSum(s) == IF s = <<>> THEN 0 ELSE s[1] + SeqSum(Tail(s))

KthSmallest(values, k) ==
    CHOOSE x \in Range(values) :
        /\ Cardinality({i \in 1..Len(values) : values[i] < x}) < k
        /\ Cardinality({i \in 1..Len(values) : values[i] <= x}) >= k

\* An empty list of readings gives 0.
aggregate_temperature_Zero(values, method) ==
    IF values = <<>> THEN 0
    ELSE IF method = "min" THEN SetMin(Range(values))
    ELSE IF method = "max" THEN SetMax(Range(values))
    ELSE IF method = "first" THEN values[1]
    ELSE SeqSum(values) \div Len(values)

\* statistics.median: the middle value, or the mean of the two middle values; a mean
\* that falls between two tenths is cut to the lower tenth, as is the average.
aggregate_temperature(values, method) ==
    LET n == Len(values)
    IN IF values = <<>> THEN None
       ELSE IF method = "min" THEN SetMin(Range(values))
       ELSE IF method = "max" THEN SetMax(Range(values))
       ELSE IF method = "median"
       THEN IF n % 2 = 1 THEN KthSmallest(values, (n + 1) \div 2)
            ELSE (KthSmallest(values, n \div 2) + KthSmallest(values, n \div 2 + 1)) \div 2
       ELSE IF method = "first" THEN values[1]
       ELSE SeqSum(values) \div n

----------------------------------------------------------------------------
(* aggregate_temperature in Python's floats                                *)
(*                                                                         *)
(* A Python float is an IEEE 754 binary64 number: FloatBits significant    *)
(* bits, every operation rounded to the nearest float, a tie to the one    *)
(* whose last bit is 0.  A positive float is a record of the integer m of  *)
(* its significant bits, 2^52 <= m < 2^53, and the exponent e of its last  *)
(* bit: its value is m * 2^e.  An integer of any size is the sequence of   *)
(* its digits to the base LimbBase, most significant first and without     *)
(* leading zeros.  The control cycle works with aggregate_temperature in   *)
(* tenths, above; here the function is computed as Python computes it.     *)

FloatBits == 53
LimbBits == 12
LimbBase == 4096

FloatNone == [m |-> <<>>, e |-> 0]

RECURSIVE Pow2(_)
Pow2(k) == IF k = 0 THEN 1 ELSE 2 * Pow2(k - 1)

RECURSIVE SmallBitLen(_)
SmallBitLen(n) == IF n = 0 THEN 0 ELSE 1 + SmallBitLen(n \div 2)

RECURSIVE NatLimbs(_)
NatLimbs(n) == IF n = 0 THEN <<>> ELSE Append(NatLimbs(n \div LimbBase), n % LimbBase)

RECURSIVE StripZeros(_)
StripZeros(v) == IF v # <<>> /\ v[1] = 0 THEN StripZeros(Tail(v)) ELSE v

Front(v) == IF v = <<>> THEN <<>> ELSE SubSeq(v, 1, Len(v) - 1)

\* The number of bits of v.
BitLen(v) == IF v = <<>> THEN 0 ELSE LimbBits * (Len(v) - 1) + SmallBitLen(v[1])

\* v * c + carry, for c up to LimbBase
RECURSIVE MulAdd(_, _, _)
MulAdd(v, c, carry) ==
    IF v = <<>> THEN NatLimbs(carry)
    ELSE Append(MulAdd(Front(v), c, (v[Len(v)] * c + carry) \div LimbBase),
                (v[Len(v)] * c + carry) % LimbBase)

\* a + b + carry
RECURSIVE AddLimbs(_, _, _)
AddLimbs(a, b, carry) ==
    IF a = <<>> /\ b = <<>> THEN NatLimbs(carry)
    ELSE LET t == (IF a = <<>> THEN 0 ELSE a[Len(a)])
                  + (IF b = <<>> THEN 0 ELSE b[Len(b)]) + carry
         IN Append(AddLimbs(Front(a), Front(b), t \div LimbBase), t % LimbBase)

\* Long division of a by n, n up to 2^18: the digits q of the quotient once the
\* digits of a are taken in, and the remainder r.
RECURSIVE DivLimbs(_, _, _, _)
DivLimbs(a, n, r, q) ==
    IF a = <<>> THEN [q |-> StripZeros(q), r |-> r]
    ELSE DivLimbs(Tail(a), n, (r * LimbBase + Head(a)) % n,
                  Append(q, (r * LimbBase + Head(a)) \div n))

\* The float nearest to (v + f) * 2^e, where f is a fraction below 1 that is above 0
\* exactly when inexact.
RoundNat(v, inexact, e) ==
    IF BitLen(v) <= FloatBits
    THEN [m |-> MulAdd(v, Pow2(FloatBits - BitLen(v)), 0), e |-> e - (FloatBits - BitLen(v))]
    ELSE LET drop == BitLen(v) - FloatBits
             d == DivLimbs(v, Pow2(drop), 0, <<>>)
             half == Pow2(drop - 1)
             sticky == inexact \/ d.r % half # 0
             up == d.r >= half /\ (sticky \/ d.q[Len(d.q)] % 2 = 1)
             m1 == IF up THEN MulAdd(d.q, 1, 1) ELSE d.q
         IN IF BitLen(m1) > FloatBits
            THEN [m |-> DivLimbs(m1, 2, 0, <<>>).q, e |-> e + drop + 1]
            ELSE [m |-> m1, e |-> e + drop]

\* float(state.state) for the state of a sensor that reads tenths / 10, as "21.4"
float_of_tenths(tenths) ==
    LET d == DivLimbs(MulAdd(NatLimbs(tenths) \o <<0, 0, 0, 0>>, Pow2(9), 0), 10, 0, <<>>)
    IN RoundNat(d.q, d.r # 0, 0 - (4 * LimbBits + 9))

\* x + y
FloatAdd(x, y) ==
    LET lo == Min2(x.e, y.e)
    IN RoundNat(AddLimbs(MulAdd(x.m, Pow2(x.e - lo), 0), MulAdd(y.m, Pow2(y.e - lo), 0), 0),
                FALSE, lo)

\* x / n for an int n from 1 up
FloatDivNat(x, n) ==
    LET shift == SmallBitLen(n) + 1
        d == DivLimbs(MulAdd(x.m, Pow2(shift), 0), n, 0, <<>>)
    IN RoundNat(d.q, d.r # 0, x.e - shift)

\* x < y
FloatLess(x, y) ==
    IF x.e # y.e THEN x.e < y.e
    ELSE \E i \in 1..Len(x.m) :
            /\ x.m[i] < y.m[i]
            /\ \A j \in 1..(i - 1) : x.m[j] = y.m[j]

\* The next float above x.
FloatSucc(x) == RoundNat(MulAdd(x.m, 1, 1), FALSE, x.e)

\* sum(values): 0 + values[0] is values[0], and the rest is added from left to right
RECURSIVE FloatSum(_)
FloatSum(values) ==
    IF Len(values) = 1 THEN values[1]
    ELSE FloatAdd(FloatSum(Front(values)), values[Len(values)])

\* sorted(values)[k - 1]
FloatKthSmallest(values, k) ==
    CHOOSE x \in Range(values) :
        /\ Cardinality({i \in 1..Len(values) : FloatLess(values[i], x)}) < k
        /\ Cardinality({i \in 1..Len(values) : ~FloatLess(x, values[i])}) >= k

\* The method is not looked at: the mean is returned.
FloatAggregate_MeanOnly(values, method) ==
    IF values = <<>> THEN FloatNone
    ELSE FloatDivNat(FloatSum(values), Len(values))

\* aggregate_temperature(values, method) for a list of floats: statistics.median
\* returns the middle value, or the two middle values added and divided by 2.
FloatAggregate(values, method) ==
    IF values = <<>> THEN FloatNone
    ELSE IF method = "min" THEN FloatKthSmallest(values, 1)
    ELSE IF method = "max" THEN FloatKthSmallest(values, Len(values))
    ELSE IF method = "median"
    THEN IF Len(values) % 2 = 1 THEN FloatKthSmallest(values, (Len(values) + 1) \div 2)
         ELSE FloatDivNat(FloatAdd(FloatKthSmallest(values, Len(values) \div 2),
                                   FloatKthSmallest(values, Len(values) \div 2 + 1)), 2)
    ELSE IF method = "first" THEN values[1]
    ELSE FloatDivNat(FloatSum(values), Len(values))

----------------------------------------------------------------------------
(* Configuration: the rooms of the config entry (_load_configuration)       *)

RoomIds == <<"r1", "r2", "r3">>
Rooms == Range(RoomIds)

NoDumb == <<>>

\* Three rooms share the floor unit; r1 also has a unit of its own that heats in
\* category 3 and cools in category 1, and three script-driven devices: a heater of
\* category 2, a fan that cools and a heater that is switched out of participation.
RoomConfig ==
    [r1 |-> [room_id |-> "r1",
             temp_sensors |-> <<"sensor.r1">>,
             heat_category_1 |-> <<"climate.floor">>,
             heat_category_2 |-> <<>>,
             heat_category_3 |-> <<"climate.ac1">>,
             cool_category_1 |-> <<"climate.ac1">>,
             cool_category_2 |-> <<>>,
             cool_category_3 |-> <<>>,
             weather_sensitive_climates |-> <<>>,
             dumb_devices |-> << [on_script |-> "script.heater1_on",
                                  off_script |-> "script.heater1_off",
                                  device_type |-> "heat",
                                  participation |-> "until_reach_target",
                                  category |-> 2],
                                 [on_script |-> "script.fan1_on",
                                  off_script |-> "script.fan1_off",
                                  device_type |-> "cool",
                                  participation |-> "always_on",
                                  category |-> 1],
                                 [on_script |-> "script.old_on",
                                  off_script |-> "script.old_off",
                                  device_type |-> "heat",
                                  participation |-> "off",
                                  category |-> 1] >>,
             shared_climates |-> <<"climate.floor">>],
     r2 |-> [room_id |-> "r2",
             temp_sensors |-> <<"sensor.r2">>,
             heat_category_1 |-> <<"climate.floor">>,
             heat_category_2 |-> <<>>,
             heat_category_3 |-> <<>>,
             cool_category_1 |-> <<>>,
             cool_category_2 |-> <<>>,
             cool_category_3 |-> <<>>,
             weather_sensitive_climates |-> <<>>,
             dumb_devices |-> NoDumb,
             shared_climates |-> <<"climate.floor">>],
     r3 |-> [room_id |-> "r3",
             temp_sensors |-> <<"sensor.r3">>,
             heat_category_1 |-> <<"climate.floor">>,
             heat_category_2 |-> <<>>,
             heat_category_3 |-> <<>>,
             cool_category_1 |-> <<>>,
             cool_category_2 |-> <<>>,
             cool_category_3 |-> <<>>,
             weather_sensitive_climates |-> <<>>,
             dumb_devices |-> NoDumb,
             shared_climates |-> <<"climate.floor">>]]

\* The climate entities that some room of the entry lists as shared.
SharedClimates == UNION {Range(RoomConfig[r].shared_climates) : r \in Rooms}

\* merged.get(CONF_ROOMS, []): the rooms of the entry as installed.
rooms_data == [i \in 1..Len(RoomIds) |-> RoomConfig[RoomIds[i]]]

\* self._shared_map after the loop over the given rooms: for each climate entity
\* the rooms that list it as shared, in the order of the rooms.
BuildSharedMap(rooms) ==
    [climate_id \in Climates |->
        LET Lists(i) == climate_id \in Range(rooms[i].shared_climates)
            listing == SelectSeq([i \in 1..Len(rooms) |-> i], Lists)
        IN [k \in 1..Len(listing) |-> rooms[listing[k]].room_id]]

\* self._shared_map.get(climate_id, [])
shared_map(climate_id) == _shared_map[climate_id]

\* self._rooms[room_id]
RoomOf(room_id) == _rooms[CHOOSE i \in 1..Len(_rooms) : _rooms[i].room_id = room_id]

\* The attributes of each climate entity's state that do not change here.
ClimateAttrs ==
    [c \in Climates |->
        IF c = "climate.floor"
        THEN [hvac_modes |-> {"off", "heat"}, min_temp |-> 160, max_temp |-> 235]
        ELSE [hvac_modes |-> {"off", "heat", "cool"}, min_temp |-> 160, max_temp |-> 300]]

MODE_OFF == "off"
MODE_PER_ROOM == "per_room"
MODE_GLOBAL == "global"
OUTDOOR_POLICY_BLOCK == "block"
DUMB_PARTICIPATION_OFF == "off"

----------------------------------------------------------------------------
(* coordinator.py: reading options and states                               *)

_opt(key) == options[key]

_room_target(room_id) ==
    IF room_targets[room_id] # None THEN room_targets[room_id]
    ELSE _opt("global_target")

_room_tolerance(room_id) ==
    IF _opt("mode") = MODE_GLOBAL THEN _opt("global_tolerance") ELSE _opt("tolerance")

\* Every room is taken for enabled.
_room_enabled_Always(room_id) == TRUE

_room_enabled(room_id) == room_enabled[room_id]

\* A sensor whose state is missing, unknown, unavailable or no number is None here.
_read_room_temperature(room) ==
    LET Valid(entity_id) == sensor[entity_id] # None
        valid == SelectSeq(room.temp_sensors, Valid)
        values == [i \in 1..Len(valid) |-> sensor[valid[i]]]
    IN aggregate_temperature(values, _opt("aggregation"))

_read_outdoor_temp == outdoor

_ac_allowed(outdoor_temp, is_heating) ==
    IF outdoor_temp = None
    THEN _opt("ac_missing_outdoor_policy") # OUTDOOR_POLICY_BLOCK
    ELSE IF is_heating THEN outdoor_temp >= _opt("min_outdoor_for_heatpump")
    ELSE outdoor_temp <= _opt("max_outdoor_for_cool")

----------------------------------------------------------------------------
(* coordinator.py: device commands                                         *)
(*                                                                         *)
(* The operators below thread a record W through the commands of one step: *)
(* ds is _device_state, calls the service calls issued, lc the time of the *)
(* last call to each entity, pend what each climate entity has yet to do.  *)

World == [ds |-> device_state, calls |-> calls, lc |-> last_call, pend |-> pending]

\* Anti-flapping that lets every command through.
_can_act_Always(W, entity_id) == TRUE

_can_act(W, entity_id) ==
    LET last_action_time == W.ds[entity_id]
        min_action == _opt("min_action_interval")
    IN IF last_action_time = None THEN TRUE
       ELSE (now - last_action_time) >= min_action

\* hass.services.async_call(domain, service, ..., blocking=False): the call is
\* issued now and carried out by the entity later (DeviceApply).  inv is the index
\* in calls of the first call of the command this call belongs to.
async_call(W, entity_id, domain, service, hvac_mode, temperature, by, inv) ==
    LET call == [entity_id |-> entity_id, domain |-> domain, service |-> service,
                 hvac_mode |-> hvac_mode, temperature |-> temperature,
                 by |-> by, inv |-> inv, time |-> now,
                 since |-> IF W.lc[entity_id] = None THEN None ELSE now - W.lc[entity_id],
                 min_action |-> _opt("min_action_interval")]
        pend1 == IF entity_id \notin Climates THEN W.pend
                 ELSE IF service = "set_hvac_mode"
                 THEN [W.pend EXCEPT ![entity_id].state = hvac_mode]
                 ELSE IF service = "set_temperature"
                 THEN [W.pend EXCEPT ![entity_id].temperature = temperature]
                 ELSE IF service = "turn_off"
                 THEN [W.pend EXCEPT ![entity_id].state = "off"]
                 ELSE W.pend
    IN [W EXCEPT !.calls = Append(@, call), !.lc[entity_id] = now, !.pend = pend1]

\* The setpoint is sent whatever the entity's setpoint is.
should_set_temp_Always(current_setpoint, setpoint) == TRUE

\* abs(float(current_setpoint) - setpoint) > 0.05, in tenths of a degree
should_set_temp(current_setpoint, setpoint) ==
    IF current_setpoint = None THEN TRUE
    ELSE 2 * Abs(current_setpoint - setpoint) > 1

_async_set_climate(W, entity_id, target, is_heating, control_type, offset, skip_hvac, by) ==
    IF ~_can_act(W, entity_id) THEN [W |-> W, sent |-> FALSE]
    ELSE IF hass[entity_id].state = "missing" THEN [W |-> W, sent |-> FALSE]
    ELSE
    LET state == hass[entity_id]
        attrs == ClimateAttrs[entity_id]
        inv == Len(W.calls) + 1
        hvac_mode == mode_hvac(is_heating)
        set_mode == ~skip_hvac /\ hvac_mode \in attrs.hvac_modes /\ state.state # hvac_mode
        W1 == IF set_mode
              THEN async_call(W, entity_id, "climate", "set_hvac_mode", hvac_mode, None, by, inv)
              ELSE W
        setpoint == compute_setpoint(target, is_heating, control_type, offset,
                                     attrs.min_temp, attrs.max_temp)
        current_setpoint == state.temperature
        W2 == IF should_set_temp(current_setpoint, setpoint)
              THEN async_call(W1, entity_id, "climate", "set_temperature", "", setpoint, by, inv)
              ELSE W1
        action_sent == set_mode \/ should_set_temp(current_setpoint, setpoint)
    IN [W |-> IF action_sent THEN [W2 EXCEPT !.ds[entity_id] = now] ELSE W2,
        sent |-> action_sent]

\* A turn_off dropped because the entity is off counts as an action all the same.
_async_call_service_entity_StampsDropped(W, entity_id, domain, service, by) ==
    IF ~_can_act(W, entity_id) THEN [W |-> W, sent |-> FALSE]
    ELSE IF /\ domain = "climate" /\ service = "turn_off"
            /\ hass[entity_id].state # "missing" /\ hass[entity_id].state = "off"
    THEN [W |-> [W EXCEPT !.ds[entity_id] = now], sent |-> FALSE]
    ELSE LET W1 == async_call(W, entity_id, domain, service, "", None, by, Len(W.calls) + 1)
         IN [W |-> [W1 EXCEPT !.ds[entity_id] = now], sent |-> TRUE]

_async_call_service_entity(W, entity_id, domain, service, by) ==
    IF ~_can_act(W, entity_id) THEN [W |-> W, sent |-> FALSE]
    ELSE IF /\ domain = "climate" /\ service = "turn_off"
            /\ hass[entity_id].state # "missing" /\ hass[entity_id].state = "off"
    THEN [W |-> W, sent |-> FALSE]
    ELSE LET W1 == async_call(W, entity_id, domain, service, "", None, by, Len(W.calls) + 1)
         IN [W |-> [W1 EXCEPT !.ds[entity_id] = now], sent |-> TRUE]

\* No climate entity is taken for a shared one.
IsSharedOf_Never(room, entity_id) == FALSE

\* entity_id in room.shared_climates
IsSharedOf(room, entity_id) == entity_id \in Range(room.shared_climates)

_room_has_capability(room, is_heating) ==
    LET category_entities ==
            IF is_heating
            THEN merge_categories(room.heat_category_1, room.heat_category_2,
                                  room.heat_category_3, 3)
            ELSE merge_categories(room.cool_category_1, room.cool_category_2,
                                  room.cool_category_3, 3)
        has_room_entities ==
            \E e \in Range(category_entities) :
                ~(e \in Climates /\ e \in Range(room.shared_climates))
        target_type == IF is_heating THEN "heat" ELSE "cool"
    IN \/ has_room_entities
       \/ \E i \in 1..Len(room.dumb_devices) :
              /\ room.dumb_devices[i].device_type = target_type
              /\ room.dumb_devices[i].participation # DUMB_PARTICIPATION_OFF

\* The on_script of every dumb device is run, whatever its category, type and
\* participation.
ActivateDumbs_All(acc, room, is_heating, category) ==
    LET dumbs[i \in 0..Len(room.dumb_devices)] ==
            IF i = 0 THEN acc
            ELSE LET prev == dumbs[i - 1]
                     dumb == room.dumb_devices[i]
                     r == _async_call_service_entity(prev.W, dumb.on_script, "script",
                                                     "turn_on", room.room_id)
                 IN [W |-> r.W,
                     active |-> IF r.sent THEN Append(prev.active, dumb.on_script)
                                ELSE prev.active]
    IN dumbs[Len(room.dumb_devices)]

\* The loop over room.dumb_devices, from the world and the active list acc that
\* the loop over the entities left.
ActivateDumbs(acc, room, is_heating, category) ==
    LET dumbs[i \in 0..Len(room.dumb_devices)] ==
            IF i = 0 THEN acc
            ELSE LET prev == dumbs[i - 1]
                     dumb == room.dumb_devices[i]
                 IN IF ~should_activate_dumb_device(category, dumb.category, is_heating,
                                                    dumb.device_type, dumb.participation)
                    THEN prev
                    ELSE LET r == _async_call_service_entity(prev.W, dumb.on_script, "script",
                                                             "turn_on", room.room_id)
                         IN [W |-> r.W,
                             active |-> IF r.sent THEN Append(prev.active, dumb.on_script)
                                        ELSE prev.active]
    IN dumbs[Len(room.dumb_devices)]

\* Returns the world after the room's commands and the entities acted on.
_async_apply_room_actions(W, room, rt, is_heating, category, control_type) ==
    LET ac_allowed == _ac_allowed(_read_outdoor_temp, is_heating)
        category_entities ==
            IF is_heating
            THEN merge_categories(room.heat_category_1, room.heat_category_2,
                                  room.heat_category_3, category)
            ELSE merge_categories(room.cool_category_1, room.cool_category_2,
                                  room.cool_category_3, category)
        ids == filter_weather_sensitive(category_entities,
                                        Range(room.weather_sensitive_climates), ac_allowed)
        ents[i \in 0..Len(ids)] ==
            IF i = 0 THEN [W |-> W, active |-> <<>>]
            ELSE LET prev == ents[i - 1]
                     entity_id == ids[i]
                 IN IF entity_id \in Climates
                    THEN IF IsSharedOf(room, entity_id) THEN prev
                         ELSE LET r == _async_set_climate(prev.W, entity_id, rt.target_temp,
                                                          is_heating, control_type,
                                                          rt.current_offset, FALSE, room.room_id)
                              IN [W |-> r.W,
                                  active |-> IF r.sent THEN Append(prev.active, entity_id)
                                             ELSE prev.active]
                    ELSE IF entity_id \in Scripts
                    THEN LET r == _async_call_service_entity(prev.W, entity_id, "script",
                                                             "turn_on", room.room_id)
                         IN [W |-> r.W,
                             active |-> IF r.sent THEN Append(prev.active, entity_id)
                                        ELSE prev.active]
                    ELSE prev
    IN ActivateDumbs(ents[Len(ids)], room, is_heating, category)

\* The climate entities are turned off and the dumb devices are left as they are.
_async_apply_after_reach_ClimatesOnly(W, room) ==
    LET merged == merge_categories(room.heat_category_1, room.heat_category_2,
                                   room.heat_category_3, 3)
                  \o merge_categories(room.cool_category_1, room.cool_category_2,
                                      room.cool_category_3, 3)
        IsClimate(e) == e \in Climates
        all_climates == Dedupe(SelectSeq(merged, IsClimate))
        offs[i \in 0..Len(all_climates)] ==
            IF i = 0 THEN W
            ELSE IF IsSharedOf(room, all_climates[i]) THEN offs[i - 1]
            ELSE _async_call_service_entity(offs[i - 1], all_climates[i], "climate",
                                            "turn_off", room.room_id).W
    IN offs[Len(all_climates)]

\* all_climates is a Python set; its members are visited here in list order, and the
\* turn_off calls to different entities do not affect one another.
_async_apply_after_reach(W, room) ==
    LET merged == merge_categories(room.heat_category_1, room.heat_category_2,
                                   room.heat_category_3, 3)
                  \o merge_categories(room.cool_category_1, room.cool_category_2,
                                      room.cool_category_3, 3)
        IsClimate(e) == e \in Climates
        all_climates == Dedupe(SelectSeq(merged, IsClimate))
        offs[i \in 0..Len(all_climates)] ==
            IF i = 0 THEN W
            ELSE IF IsSharedOf(room, all_climates[i]) THEN offs[i - 1]
            ELSE _async_call_service_entity(offs[i - 1], all_climates[i], "climate",
                                            "turn_off", room.room_id).W
        dumbs[i \in 0..Len(room.dumb_devices)] ==
            IF i = 0 THEN offs[Len(all_climates)]
            ELSE IF room.dumb_devices[i].participation = DUMB_PARTICIPATION_OFF
            THEN dumbs[i - 1]
            ELSE _async_call_service_entity(dumbs[i - 1], room.dumb_devices[i].off_script,
                                            "script", "turn_on", room.room_id).W
    IN dumbs[Len(room.dumb_devices)]

----------------------------------------------------------------------------
(* coordinator.py: _async_run_control_cycle, one room                       *)

\* shared_demands[shared].append(demand) on a defaultdict(list), kept in the order
\* in which the keys were first used.
AppendDemand(shared_demands, shared, demand) ==
    IF \E i \in 1..Len(shared_demands) : shared_demands[i].climate = shared
    THEN [i \in 1..Len(shared_demands) |->
            IF shared_demands[i].climate = shared
            THEN [shared_demands[i] EXCEPT !.demands = Append(@, demand)]
            ELSE shared_demands[i]]
    ELSE Append(shared_demands, [climate |-> shared, demands |-> <<demand>>])

RECURSIVE AppendDemands(_, _, _)
AppendDemands(shared_demands, shared_climates, demand) ==
    IF shared_climates = <<>> THEN shared_demands
    ELSE AppendDemands(AppendDemand(shared_demands, Head(shared_climates), demand),
                       Tail(shared_climates), demand)

\* The phase with which a room in hold that is out of the band goes on:
\* boost once should_reenter_boost says so, hold until then.
ReenterPhase(rt, reached, heat_needed, cool_needed) ==
    IF rt.phase = PHASE_HOLD /\ ~reached
    THEN IF heat_needed
         THEN IF should_reenter_boost(rt.current_temp, rt.target_temp, rt.tolerance,
                                      _opt("delta"), TRUE)
              THEN PHASE_BOOST ELSE rt.phase
         ELSE IF cool_needed
         THEN IF should_reenter_boost(rt.current_temp, rt.target_temp, rt.tolerance,
                                      _opt("delta"), FALSE)
              THEN PHASE_BOOST ELSE rt.phase
         ELSE rt.phase
    ELSE rt.phase

Payload(rt, phase_reason, demand, demand_delta) ==
    [phase |-> rt.phase, enabled |-> rt.enabled, current_temp |-> rt.current_temp,
     offset |-> rt.current_offset, phase_reason |-> phase_reason,
     demand |-> demand, demand_delta |-> demand_delta]

\* Lines 401-450 of the loop body: the room's runtime after the hysteresis check,
\* the boost clock and the transition.
RoomPhase(c, rt0) ==
    LET target == rt0.target_temp
        tolerance == rt0.tolerance
        heat_needed == (target - rt0.current_temp) > tolerance
        cool_needed == (rt0.current_temp - target) > tolerance
        reached == within_target(rt0.current_temp, target, tolerance)
        phase1 == ReenterPhase(rt0, reached, heat_needed, cool_needed)
        started1 == IF phase1 = PHASE_BOOST /\ rt0.boost_started_at = None
                    THEN now ELSE rt0.boost_started_at
        elapsed == IF started1 # None THEN now - started1 ELSE 0
        np == next_phase_and_offset(c.control_type, phase1, reached, rt0.current_offset,
                                    _opt("step_offset"), _opt("max_offset"),
                                    elapsed, _opt("t_time"))
    IN [rt0 EXCEPT
            !.phase = np[1],
            !.current_offset = np[2],
            !.last_reach_time = IF np[1] = PHASE_HOLD THEN now ELSE @,
            !.boost_started_at = IF np[1] = PHASE_HOLD THEN None ELSE started1,
            !.boost_entered_at = IF np[1] = PHASE_BOOST /\ rt0.phase # PHASE_BOOST
                                 THEN now ELSE @,
            !.elapsed_boost_seconds = elapsed]

\* Lines 452-505 of the loop body: the heating branch, the cooling branch and the
\* branch of a room in hold that needs neither.
RoomActions(W, c, room, rt1) ==
    LET diff_heat == rt1.target_temp - rt1.current_temp
        diff_cool == rt1.current_temp - rt1.target_temp
        heat_needed == diff_heat > rt1.tolerance
        cool_needed == diff_cool > rt1.tolerance
    IN
    IF heat_needed \/ cool_needed
    THEN LET is_heating == heat_needed
             diff == IF is_heating THEN diff_heat ELSE diff_cool
             direction == IF is_heating THEN "heat" ELSE "cool"
             thresholds ==
                 IF is_heating
                 THEN [category2_diff |-> _opt("heat_category2_diff"),
                       category3_diff |-> _opt("heat_category3_diff")]
                 ELSE [category2_diff |-> _opt("cool_category2_diff"),
                       category3_diff |-> _opt("cool_category3_diff")]
             category == select_category(diff, thresholds, TRUE)
             rt2 == IF is_heating
                    THEN [rt1 EXCEPT !.active_category_heat = category]
                    ELSE [rt1 EXCEPT !.active_category_cool = category]
             acted == _async_apply_room_actions(W, room, rt2, is_heating, category,
                                                c.control_type)
             phase_reason(active) ==
                 IF ~_room_has_capability(room, is_heating)
                 THEN IF is_heating THEN "no_heating_devices" ELSE "no_cooling_devices"
                 ELSE IF active = <<>> THEN "no_devices_activated"
                 ELSE "none"
             Result(done) ==
                 [W |-> done.W, rt |-> [rt2 EXCEPT !.active_devices = done.active],
                  shared_demands |->
                      AppendDemands(c.shared_demands, room.shared_climates,
                                    [room_id |-> room.room_id, direction |-> direction,
                                     diff |-> diff]),
                  payload |-> Payload([rt2 EXCEPT !.active_devices = done.active],
                                      phase_reason(done.active), direction, diff)]
         IN Result(acted)
    ELSE IF rt1.phase = PHASE_HOLD
    THEN [W |-> _async_apply_after_reach(W, room), rt |-> rt1,
          shared_demands |-> c.shared_demands,
          payload |-> Payload(rt1, "none", "none", 0)]
    ELSE [W |-> W, rt |-> rt1, shared_demands |-> c.shared_demands,
          payload |-> Payload(rt1, "none", "none", 0)]

\* Lines 376-399 of the loop body: a room without a temperature, a cycle in mode
\* off and a disabled room go to idle and are passed over.
RoomBody(W, c, room, rt0) ==
    IF rt0.current_temp = None
    THEN [W |-> W, rt |-> [rt0 EXCEPT !.enabled = FALSE, !.phase = PHASE_IDLE],
          shared_demands |-> c.shared_demands,
          payload |-> Payload([rt0 EXCEPT !.enabled = FALSE, !.phase = PHASE_IDLE],
                              "no_temperature", "none", 0)]
    ELSE IF c.mode = MODE_OFF \/ ~rt0.enabled
    THEN [W |-> W, rt |-> [rt0 EXCEPT !.phase = PHASE_IDLE],
          shared_demands |-> c.shared_demands,
          payload |-> Payload([rt0 EXCEPT !.phase = PHASE_IDLE],
                              IF c.mode = MODE_OFF THEN "mode_off" ELSE "room_disabled",
                              "none", 0)]
    ELSE RoomActions(W, c, room, RoomPhase(c, rt0))

\* The pass without the reset of active_devices and of the two categories.
ProcessRoom_CategoriesKept(W, c, room_id) ==
    RoomBody(W, c, RoomOf(room_id),
             [runtime[room_id] EXCEPT
                    !.enabled = _room_enabled(room_id),
                    !.target_temp = _room_target(room_id),
                    !.tolerance = _room_tolerance(room_id),
                    !.current_temp = _read_room_temperature(RoomOf(room_id))])

\* The body of the loop over self._rooms for one room: the world, the room's
\* runtime, the demands and the room's payload after it.
ProcessRoom(W, c, room_id) ==
    RoomBody(W, c, RoomOf(room_id),
             [runtime[room_id] EXCEPT
                    !.enabled = _room_enabled(room_id),
                    !.target_temp = _room_target(room_id),
                    !.tolerance = _room_tolerance(room_id),
                    !.current_temp = _read_room_temperature(RoomOf(room_id)),
                    !.active_devices = <<>>,
                    !.active_category_heat = 0,
                    !.active_category_cool = 0])

----------------------------------------------------------------------------
(* coordinator.py: _async_apply_shared                                      *)

\* max(climate_demands, key=lambda item: item[2]): the first demand of largest diff.
MaxDemand(climate_demands) ==
    climate_demands[CHOOSE i \in 1..Len(climate_demands) :
        /\ \A j \in 1..Len(climate_demands) : climate_demands[j].diff <= climate_demands[i].diff
        /\ \A j \in 1..(i - 1) : climate_demands[j].diff < climate_demands[i].diff]

\* next((d for d in climate_demands if d[0] == priority_room), None), as a sequence
\* of at most one demand.
PriorityDemand(climate_demands, priority_room) ==
    LET IsPriority(d) == d.room_id = priority_room
        found == SelectSeq(climate_demands, IsPriority)
    IN IF found = <<>> THEN <<>> ELSE <<found[1]>>

\* The mean is taken over all the demands, whatever their direction.
AverageDemand_AllDiffs(climate_demands) ==
    LET IsHeat(d) == d.direction = "heat"
        IsCool(d) == d.direction = "cool"
        heat == SelectSeq(climate_demands, IsHeat)
        cool == SelectSeq(climate_demands, IsCool)
        Diffs(ds) == [i \in 1..Len(ds) |-> ds[i].diff]
    IN [room_id |-> "avg",
        direction |-> IF Len(heat) >= Len(cool) THEN "heat" ELSE "cool",
        diff |-> SeqSum(Diffs(climate_demands)) \div Max2(Len(climate_demands), 1)]

\* The mean of the larger group of demands; a mean between two tenths is cut to the
\* lower tenth.
AverageDemand(climate_demands) ==
    LET IsHeat(d) == d.direction = "heat"
        IsCool(d) == d.direction = "cool"
        heat == SelectSeq(climate_demands, IsHeat)
        cool == SelectSeq(climate_demands, IsCool)
        Diffs(ds) == [i \in 1..Len(ds) |-> ds[i].diff]
    IN IF Len(heat) >= Len(cool)
       THEN [room_id |-> "avg", direction |-> "heat",
             diff |-> SeqSum(Diffs(heat)) \div Max2(Len(heat), 1)]
       ELSE [room_id |-> "avg", direction |-> "cool",
             diff |-> SeqSum(Diffs(cool)) \div Max2(Len(cool), 1)]

\* The largest demand is replaced by the last one recorded.
SelectDemand_Last(strategy, priority_room, climate_demands) ==
    IF strategy = "priority_room" /\ priority_room # ""
    THEN PriorityDemand(climate_demands, priority_room)
    ELSE IF strategy = "average_request" THEN <<AverageDemand(climate_demands)>>
    ELSE <<climate_demands[Len(climate_demands)]>>

\* The demand the strategy selects, as a sequence of one demand, or <<>> where the
\* loop goes on to the next device without a command.
SelectDemand(strategy, priority_room, climate_demands) ==
    IF strategy = "priority_room" /\ priority_room # ""
    THEN PriorityDemand(climate_demands, priority_room)
    ELSE IF strategy = "average_request" THEN <<AverageDemand(climate_demands)>>
    ELSE <<MaxDemand(climate_demands)>>

\* Every room of the shared map counts, whatever its state.
InvolvedRooms_All(climate_entity) == shared_map(climate_entity)

InvolvedRooms(climate_entity) ==
    LET Involved(room_id) ==
            /\ _room_enabled(room_id)
            /\ room_id \in DOMAIN runtime
            /\ runtime[room_id].current_temp # None
    IN SelectSeq(shared_map(climate_entity), Involved)

SharedTarget(involved_rooms, is_heating) ==
    IF is_heating
    THEN SetMax({_room_target(involved_rooms[i]) : i \in 1..Len(involved_rooms)})
    ELSE SetMin({_room_target(involved_rooms[i]) : i \in 1..Len(involved_rooms)})

\* The world after the loop over demands.items(), and for each device of the loop
\* what was decided: the arguments of its _async_set_climate call, or why it was
\* passed over.
_async_apply_shared(W, shared_demands) ==
    LET strategy == _opt("shared_arbitration")
        priority_room == _opt("priority_room")
        loop[i \in 0..Len(shared_demands)] ==
            IF i = 0 THEN [W |-> W, log |-> <<>>]
            ELSE
            LET prev == loop[i - 1]
                climate_entity == shared_demands[i].climate
                climate_demands == shared_demands[i].demands
                involved_rooms == InvolvedRooms(climate_entity)
                selected == SelectDemand(strategy, priority_room, climate_demands)
                entry == [entity_id |-> climate_entity, demands |-> climate_demands,
                          strategy |-> strategy, priority_room |-> priority_room,
                          involved_rooms |-> involved_rooms,
                          involved_targets |-> [j \in 1..Len(involved_rooms) |->
                                                   _room_target(involved_rooms[j])],
                          outcome |-> "", selected |-> selected,
                          target |-> None, is_heating |-> FALSE, control_type |-> "",
                          offset |-> None, skip_hvac |-> FALSE, sent |-> FALSE]
            IN IF involved_rooms = <<>>
               THEN [W |-> prev.W,
                     log |-> Append(prev.log, [entry EXCEPT !.outcome = "no_involved_rooms",
                                                            !.selected = <<>>])]
               ELSE IF selected = <<>>
               THEN [W |-> prev.W,
                     log |-> Append(prev.log, [entry EXCEPT !.outcome = "no_selected_demand"])]
               ELSE
               LET is_heating == selected[1].direction = "heat"
                   target == SharedTarget(involved_rooms, is_heating)
                   r == _async_set_climate(prev.W, climate_entity, target, is_heating,
                                           _opt("type"), _opt("step_offset"), FALSE, "shared")
               IN [W |-> r.W,
                   log |-> Append(prev.log,
                       [entry EXCEPT !.outcome = "set_climate", !.target = target,
                                     !.is_heating = is_heating, !.control_type = _opt("type"),
                                     !.offset = _opt("step_offset"), !.sent = r.sent])]
    IN loop[Len(shared_demands)]

----------------------------------------------------------------------------
(* Bounds of the model                                                     *)
(*                                                                         *)
(* MaxTime: the clock stops here.  MaxCycles: control cycles requested in  *)
(* one behaviour.  MaxChanges: changes of sensors and settings in one      *)
(* behaviour.  EngMaxOffset, EngMaxStep, EngMaxElapsed: the offsets        *)
(* 0..EngMaxOffset, steps 1..EngMaxStep and times 0..EngMaxElapsed given   *)
(* to the transition function.  EngMaxCalls: its calls in one behaviour.   *)
(* FwMaxLen: the longest list given to filter_weather_sensitive.           *)
(* PfMaxSpan: the temperatures 20.0 to 20.0 + PfMaxSpan tenths given to    *)
(* the other functions.  PfMaxOffset: their offsets.  PfMaxBand: their     *)
(* tolerances and deltas.  PfMaxDiff: the diffs and thresholds of          *)
(* select_category.  PfMaxLen: the longest list given to merge_categories. *)
(* PfMaxValues: the most readings given to aggregate_temperature.          *)
(* FlMaxCycles: the cycles of a behaviour in which cycles may raise.        *)
(* RtMaxCycles, RtMaxChanges, RtMaxTime: the cycles, the changes and the   *)
(* clock of the longer run of the timer alone.                             *)
(* CfMaxLoads, CfMaxCycles: the calls of _load_configuration and the       *)
(* cycles of a behaviour in which the configuration is loaded.             *)
(* RpMaxTime: where the clock stops while the timer fires without end.     *)

MaxTime == 2
MaxCycles == 2
MaxChanges == 1
EngMaxOffset == 3
EngMaxStep == 2
EngMaxElapsed == 2
EngMaxCalls == 2
FwMaxLen == 3
PfMaxSpan == 3
PfMaxOffset == 4
PfMaxBand == 2
PfMaxDiff == 4
PfMaxLen == 2
PfMaxValues == 3
FlMaxCycles == 3
RtMaxCycles == 4
RtMaxChanges == 2
RtMaxTime == 2
CfMaxLoads == 3
CfMaxCycles == 2
RpMaxTime == 3

\* The callers of _async_update_data: the update-interval timer and a requested
\* refresh (a setter or the state-change listener through the debouncer).
Requesters == {"timer", "refresh"}
NoHolder == "nobody"

Sensors == {"sensor.r1", "sensor.r2", "sensor.r3"}
\* The sensor whose reading changes while the coordinator runs.
ChangingSensors == {"sensor.r1"}
\* Readings around the target of 22.0 C with tolerance 0.3 and delta 0.5: far below,
\* below the band by less than delta, inside the band, far above.
SensorValues == {None, 200, 215, 220, 240}
MaxOffsetValues == {3, 20}

DefaultOptions ==
    [mode |-> MODE_GLOBAL, type |-> TYPE_NORMAL,
     global_target |-> 220, global_tolerance |-> 3, tolerance |-> 3,
     step_offset |-> 5, max_offset |-> 20, t_time |-> 2, delta |-> 5,
     min_action_interval |-> 2,
     shared_arbitration |-> "max_demand", priority_room |-> "",
     heat_category2_diff |-> 7, heat_category3_diff |-> 18,
     cool_category2_diff |-> 7, cool_category3_diff |-> 18,
     ac_missing_outdoor_policy |-> "allow",
     min_outdoor_for_heatpump |-> 0 - 150, max_outdoor_for_cool |-> 350,
     aggregation |-> "average"]

\* RoomRuntime().  The last two fields are not fields of RoomRuntime: they keep,
\* for the properties, when the room last went from another phase to boost and the
\* elapsed_boost_seconds of the room's last call of next_phase_and_offset.
NewRoomRuntime ==
    [enabled |-> TRUE, current_temp |-> None, target_temp |-> None, tolerance |-> 3,
     phase |-> PHASE_IDLE, current_offset |-> 0, boost_started_at |-> None,
     last_reach_time |-> None, active_category_heat |-> 0, active_category_cool |-> 0,
     active_devices |-> <<>>, boost_entered_at |-> None, elapsed_boost_seconds |-> 0]

\* self.data before the first cycle has returned.
NoData ==
    [mode |-> "", type |-> "", global_target |-> None, global_tolerance |-> None,
     outdoor_temp |-> None, rooms |-> <<>>]

NoCycle ==
    [mode |-> "", control_type |-> "", outdoor_temp |-> None, idx |-> 0,
     shared_demands |-> <<>>, room_payload |-> <<>>]

----------------------------------------------------------------------------
(* The state after SmartClimateCoordinator.__init__ and async_initialize    *)

InitEngineIdle ==
    /\ np_in = [control_type |-> TYPE_NORMAL, phase |-> PHASE_IDLE, reached_target |-> FALSE,
                current_offset |-> 0, step_offset |-> 1, max_offset |-> 1,
                elapsed_boost_seconds |-> 0, t_time |-> 1, n |-> 0]
    /\ np_out = <<>>

NotReturned == [returned |-> FALSE, result |-> <<>>]

InitFilterIdle ==
    /\ fw_in = [entity_ids |-> <<>>, weather_sensitive_climates |-> {},
                is_outdoor_allowed |-> TRUE]
    /\ fw_out = NotReturned

InitPureIdle ==
    /\ pf_in = [fn |-> ""]
    /\ pf_out = NotReturned

InitCoordinator ==
    /\ now = 0
    /\ outdoor = None
    /\ hass = [c \in Climates |-> [state |-> "off", temperature |-> None]]
    /\ pending = [c \in Climates |-> [state |-> "", temperature |-> None]]
    /\ _rooms = rooms_data
    /\ _shared_map = BuildSharedMap(rooms_data)
    /\ runtime = [r \in Rooms |-> NewRoomRuntime]
    /\ device_state = [e \in Entities |-> None]
    /\ lock = NoHolder
    /\ pc = [p \in Requesters |-> "idle"]
    /\ cyc = [p \in Requesters |-> NoCycle]
    /\ calls = <<>>
    /\ arbitration = <<>>
    /\ data = NoData
    /\ last_call = [e \in Entities |-> None]
    /\ changes = 0

Init ==
    /\ InitEngineIdle
    /\ InitFilterIdle
    /\ InitPureIdle
    /\ InitCoordinator
    /\ cycles = 0
    /\ options = DefaultOptions
    /\ room_enabled = [r \in Rooms |-> TRUE]
    /\ room_targets = [r \in Rooms |-> None]
    /\ \E v \in {200, 220} :
          sensor = [s \in Sensors |-> IF s \in ChangingSensors THEN v ELSE 200]

----------------------------------------------------------------------------
(* _async_update_data and the steps of _async_run_control_cycle             *)

\* A lock that is never held: async with self._lock left out.
LockAvailable_NoLock == TRUE

\* asyncio.Lock: free to take.
LockAvailable == lock = NoHolder

\* A caller enters _async_update_data and waits for the lock; limit bounds the
\* cycles of one behaviour.
RequestWithin(p, limit) ==
    /\ pc[p] \in {"idle", "failed"}
    /\ cycles < limit
    /\ cycles' = cycles + 1
    /\ pc' = [pc EXCEPT ![p] = "waiting"]
    /\ UNCHANGED <<np_in, np_out, fw_in, fw_out, pf_in, pf_out, now, options, room_enabled, room_targets, sensor, hass,
                   pending, outdoor, _rooms, _shared_map, runtime, device_state, lock, cyc, calls, arbitration,
                   data, last_call, changes>>

Request(p) == RequestWithin(p, MaxCycles)

\* The update-interval timer fires whenever its last cycle is over, without end;
\* these cycles are not counted.
TimerFires ==
    /\ pc["timer"] \in {"idle", "failed"}
    /\ pc' = [pc EXCEPT !["timer"] = "waiting"]
    /\ UNCHANGED <<np_in, np_out, fw_in, fw_out, pf_in, pf_out, now, options, room_enabled,
                   room_targets, sensor, hass, pending, outdoor, _rooms, _shared_map, runtime,
                   device_state, lock, cyc, calls, arbitration, data, last_call, cycles,
                   changes>>

\* The demands of the cycle before are kept, as an attribute of the coordinator
\* that is never cleared would keep them.
NewSharedDemands_Kept ==
    [i \in 1..Len(arbitration) |->
        [climate |-> arbitration[i].entity_id, demands |-> arbitration[i].demands]]

\* shared_demands = defaultdict(list): a local of the cycle, empty at its start.
NewSharedDemands == <<>>

\* async with self._lock, and the cycle's first lines up to the loop over rooms.
Acquire(p) ==
    /\ pc[p] = "waiting"
    /\ LockAvailable
    /\ lock' = p
    /\ pc' = [pc EXCEPT ![p] = IF _rooms = <<>> THEN "shared" ELSE "rooms"]
    /\ cyc' = [cyc EXCEPT ![p] = [mode |-> _opt("mode"), control_type |-> _opt("type"),
                                  outdoor_temp |-> _read_outdoor_temp, idx |-> 1,
                                  shared_demands |-> NewSharedDemands,
                                  room_payload |-> <<>>]]
    /\ calls' = <<>>
    /\ arbitration' = <<>>
    /\ UNCHANGED <<np_in, np_out, fw_in, fw_out, pf_in, pf_out, now, options, room_enabled, room_targets, sensor, hass,
                   pending, outdoor, _rooms, _shared_map, runtime, device_state, data, last_call, cycles,
                   changes>>

\* One pass of the loop over self._rooms.
RoomStep(p) ==
    /\ pc[p] = "rooms"
    /\ LET c == cyc[p]
           room_id == _rooms[c.idx].room_id
           r == ProcessRoom(World, c, room_id)
       IN /\ runtime' = [runtime EXCEPT ![room_id] = r.rt]
          /\ device_state' = r.W.ds
          /\ calls' = r.W.calls
          /\ last_call' = r.W.lc
          /\ pending' = r.W.pend
          /\ cyc' = [cyc EXCEPT ![p] = [c EXCEPT
                        !.idx = c.idx + 1,
                        !.shared_demands = r.shared_demands,
                        !.room_payload = Append(@, [room_id |-> room_id] @@ r.payload)]]
          /\ pc' = [pc EXCEPT ![p] = IF c.idx = Len(_rooms) THEN "shared" ELSE "rooms"]
    /\ UNCHANGED <<np_in, np_out, fw_in, fw_out, pf_in, pf_out, now, options, room_enabled, room_targets, sensor, hass,
                   outdoor, _rooms, _shared_map, lock, arbitration, data, cycles, changes>>

\* _async_apply_shared, the return of the report and the release of the lock.
SharedStep(p) ==
    /\ pc[p] = "shared"
    /\ LET r == _async_apply_shared(World, cyc[p].shared_demands)
       IN /\ device_state' = r.W.ds
          /\ calls' = r.W.calls
          /\ last_call' = r.W.lc
          /\ pending' = r.W.pend
          /\ arbitration' = r.log
    /\ data' = [mode |-> _opt("mode"), type |-> _opt("type"),
                global_target |-> _opt("global_target"),
                global_tolerance |-> _opt("global_tolerance"),
                outdoor_temp |-> cyc[p].outdoor_temp, rooms |-> cyc[p].room_payload]
    /\ cyc' = [cyc EXCEPT ![p] = NoCycle]
    /\ pc' = [pc EXCEPT ![p] = "idle"]
    /\ lock' = IF lock = p THEN NoHolder ELSE lock
    /\ UNCHANGED <<np_in, np_out, fw_in, fw_out, pf_in, pf_out, now, options, room_enabled, room_targets, sensor, hass,
                   outdoor, _rooms, _shared_map, runtime, cycles, changes>>

----------------------------------------------------------------------------
(* _async_update_data when the cycle raises                                 *)

\* The world after the first k of the service calls that a step made from W to
\* after: the calls that went through before the one that raised.  A command's
\* last_action_time is recorded after its last call, so only for the commands
\* all of whose calls went through.
CallsUntilRaise(W, after, k) ==
    LET first == Len(W.calls)
        replay[i \in 0..k] ==
            IF i = 0 THEN W
            ELSE LET call == after.calls[first + i]
                 IN async_call(replay[i - 1], call.entity_id, call.domain, call.service,
                               call.hvac_mode, call.temperature, call.by, call.inv)
        Complete(entity_id) ==
            \E i \in (first + 1)..(first + k) :
                /\ after.calls[i].entity_id = entity_id
                /\ \A j \in (first + 1)..Len(after.calls) :
                       after.calls[j].inv = after.calls[i].inv => j <= first + k
    IN [replay[k] EXCEPT
            !.ds = [entity_id \in DOMAIN W.ds |->
                       IF Complete(entity_id) THEN now ELSE W.ds[entity_id]]]

\* The exception is caught and the cycle goes on with what comes next.
RaiseUpdateFailed_Swallowed(p) ==
    /\ pc' = [pc EXCEPT ![p] = IF pc[p] = "rooms"
                                THEN IF cyc[p].idx = Len(_rooms) THEN "shared" ELSE "rooms"
                                ELSE "failed"]
    /\ cyc' = [cyc EXCEPT ![p] = IF pc[p] = "rooms" THEN [@ EXCEPT !.idx = @ + 1] ELSE NoCycle]
    /\ lock' = IF pc[p] = "rooms" THEN lock ELSE NoHolder
    /\ data' = data

\* The exception leaves with the lock still held.
RaiseUpdateFailed_LockKept(p) ==
    /\ pc' = [pc EXCEPT ![p] = "failed"]
    /\ cyc' = [cyc EXCEPT ![p] = NoCycle]
    /\ lock' = lock
    /\ data' = data

\* except Exception as err: raise UpdateFailed(...) from err.  The exception leaves
\* async with self._lock, which releases the lock; nothing is returned, so that the
\* report of the last cycle that returned stays.
RaiseUpdateFailed(p) ==
    /\ pc' = [pc EXCEPT ![p] = "failed"]
    /\ cyc' = [cyc EXCEPT ![p] = NoCycle]
    /\ lock' = IF lock = p THEN NoHolder ELSE lock
    /\ data' = data

\* The pass over room_id raises in or before its (k + 1)-th service call; r is what
\* the pass would have done.  The phase and the category of the room are set before
\* its commands, active_devices after them.
RoomRaises(p, k, room_id, r) ==
    /\ k = 0 \/ k < Len(r.W.calls) - Len(calls)
    /\ runtime' = [runtime EXCEPT ![room_id] = [r.rt EXCEPT !.active_devices = <<>>]]
    /\ device_state' = CallsUntilRaise(World, r.W, k).ds
    /\ calls' = CallsUntilRaise(World, r.W, k).calls
    /\ last_call' = CallsUntilRaise(World, r.W, k).lc
    /\ pending' = CallsUntilRaise(World, r.W, k).pend

\* A pass of the loop over self._rooms raises an unexpected exception.
RoomFail(p, k) ==
    /\ pc[p] = "rooms"
    /\ RoomRaises(p, k, _rooms[cyc[p].idx].room_id,
                  ProcessRoom(World, cyc[p], _rooms[cyc[p].idx].room_id))
    /\ RaiseUpdateFailed(p)
    /\ UNCHANGED <<np_in, np_out, fw_in, fw_out, pf_in, pf_out, now, options, room_enabled,
                   room_targets, sensor, hass, outdoor, _rooms, _shared_map, arbitration,
                   cycles, changes>>

\* _async_apply_shared raises in or before its (k + 1)-th service call; r is what it
\* would have done.
SharedRaises(p, k, r) ==
    /\ k = 0 \/ k < Len(r.W.calls) - Len(calls)
    /\ device_state' = CallsUntilRaise(World, r.W, k).ds
    /\ calls' = CallsUntilRaise(World, r.W, k).calls
    /\ last_call' = CallsUntilRaise(World, r.W, k).lc
    /\ pending' = CallsUntilRaise(World, r.W, k).pend

\* _async_apply_shared raises an unexpected exception.
SharedFail(p, k) ==
    /\ pc[p] = "shared"
    /\ SharedRaises(p, k, _async_apply_shared(World, cyc[p].shared_demands))
    /\ RaiseUpdateFailed(p)
    /\ UNCHANGED <<np_in, np_out, fw_in, fw_out, pf_in, pf_out, now, options, room_enabled,
                   room_targets, sensor, hass, outdoor, _rooms, _shared_map, runtime,
                   arbitration, cycles, changes>>

----------------------------------------------------------------------------
(* The environment                                                         *)

\* The clock moves on between control cycles: the calls of utcnow within one
\* cycle fall in one tick.
TickWithin(limit) ==
    /\ now < limit
    /\ lock = NoHolder
    /\ now' = now + 1
    /\ UNCHANGED <<np_in, np_out, fw_in, fw_out, pf_in, pf_out, options, room_enabled, room_targets, sensor, hass,
                   pending, outdoor, _rooms, _shared_map, runtime, device_state, lock, pc, cyc, calls,
                   arbitration, data, last_call, cycles, changes>>

Tick == TickWithin(MaxTime)

\* A temperature sensor reports another state; a cycle reads each sensor once, so
\* this is taken between cycles.
SensorChangeWithin(s, v, limit) ==
    /\ lock = NoHolder
    /\ changes < limit
    /\ sensor[s] # v
    /\ sensor' = [sensor EXCEPT ![s] = v]
    /\ changes' = changes + 1
    /\ UNCHANGED <<np_in, np_out, fw_in, fw_out, pf_in, pf_out, now, options, room_enabled, room_targets, hass,
                   pending, outdoor, _rooms, _shared_map, runtime, device_state, lock, pc, cyc, calls,
                   arbitration, data, last_call, cycles>>

SensorChange(s, v) == SensorChangeWithin(s, v, MaxChanges)

\* async_set_type and a change of max_offset in the entry's options, seen through
\* _opt by the cycles that follow.  Setters and listeners run in the event loop
\* between the cycles of this coordinator.
SetOption(key, v) ==
    /\ lock = NoHolder
    /\ changes < MaxChanges
    /\ options[key] # v
    /\ options' = [options EXCEPT ![key] = v]
    /\ changes' = changes + 1
    /\ UNCHANGED <<np_in, np_out, fw_in, fw_out, pf_in, pf_out, now, room_enabled, room_targets, sensor, hass,
                   pending, outdoor, _rooms, _shared_map, runtime, device_state, lock, pc, cyc, calls,
                   arbitration, data, last_call, cycles>>

\* async_set_room_enabled
SetRoomEnabledWithin(room_id, value, limit) ==
    /\ lock = NoHolder
    /\ changes < limit
    /\ room_enabled[room_id] # value
    /\ room_enabled' = [room_enabled EXCEPT ![room_id] = value]
    /\ changes' = changes + 1
    /\ UNCHANGED <<np_in, np_out, fw_in, fw_out, pf_in, pf_out, now, options, room_targets, sensor, hass,
                   pending, outdoor, _rooms, _shared_map, runtime, device_state, lock, pc, cyc, calls,
                   arbitration, data, last_call, cycles>>

SetRoomEnabled(room_id, value) == SetRoomEnabledWithin(room_id, value, MaxChanges)

\* A climate entity carries out the service calls sent to it; a cycle sends them
\* with blocking=False and reads each entity's state once, so this is taken between
\* cycles.
DeviceApply(c) ==
    /\ lock = NoHolder
    /\ pending[c] # [state |-> "", temperature |-> None]
    /\ hass' = [hass EXCEPT ![c] =
                   [state |-> IF pending[c].state # "" THEN pending[c].state ELSE @.state,
                    temperature |-> IF pending[c].temperature # None
                                    THEN pending[c].temperature ELSE @.temperature]]
    /\ pending' = [pending EXCEPT ![c] = [state |-> "", temperature |-> None]]
    /\ UNCHANGED <<np_in, np_out, fw_in, fw_out, pf_in, pf_out, now, options, room_enabled, room_targets, sensor,
                   outdoor, _rooms, _shared_map, runtime, device_state, lock, pc, cyc, calls, arbitration,
                   data, last_call, cycles, changes>>

\* The room ids of a list of rooms.
RoomIdsOf(rooms) == {rooms[i].room_id : i \in 1..Len(rooms)}

\* _load_configuration with the given rooms in the entry: self._rooms and
\* self._shared_map are cleared and built again, and self._runtime.setdefault
\* gives a RoomRuntime to each room that has none; no entry of self._runtime is
\* deleted.  The method does not await, so it runs between the steps of a cycle;
\* it is taken between cycles here.
_load_configuration(rooms) ==
    /\ lock = NoHolder
    /\ changes < CfMaxLoads
    /\ _rooms' = rooms
    /\ _shared_map' = BuildSharedMap(rooms)
    /\ runtime' = [room_id \in (DOMAIN runtime) \cup RoomIdsOf(rooms) |->
                      IF room_id \in DOMAIN runtime THEN runtime[room_id]
                      ELSE NewRoomRuntime]
    /\ changes' = changes + 1
    /\ UNCHANGED <<np_in, np_out, fw_in, fw_out, pf_in, pf_out, now, options, room_enabled,
                   room_targets, sensor, hass, pending, outdoor, device_state, lock, pc, cyc,
                   calls, arbitration, data, last_call, cycles>>

Next ==
    \/ \E p \in Requesters : Request(p)
    \/ \E p \in Requesters : Acquire(p)
    \/ \E p \in Requesters : RoomStep(p)
    \/ \E p \in Requesters : SharedStep(p)
    \/ Tick
    \/ \E s \in ChangingSensors, v \in SensorValues : SensorChange(s, v)
    \/ \E v \in ControlTypes : SetOption("type", v)
    \/ \E v \in MaxOffsetValues : SetOption("max_offset", v)
    \/ \E r \in Rooms, b \in BOOLEAN : SetRoomEnabled(r, b)
    \/ \E c \in Climates : DeviceApply(c)

Spec == Init /\ [][Next]_vars

----------------------------------------------------------------------------
(* next_phase_and_offset on its own: every argument drawn from its bounds,  *)
(* and the result of one call given to the next as phase and offset         *)

EngineInputs ==
    [control_type : ControlTypes, phase : Phases, reached_target : BOOLEAN,
     current_offset : 0..EngMaxOffset, step_offset : 1..EngMaxStep,
     max_offset : 1..EngMaxOffset, elapsed_boost_seconds : 0..EngMaxElapsed,
     t_time : 1..EngMaxElapsed, n : {0}]

InitEngine ==
    /\ np_in \in EngineInputs
    /\ np_out = <<>>
    /\ InitFilterIdle
    /\ InitPureIdle
    /\ InitCoordinator
    /\ cycles = 0
    /\ options = DefaultOptions
    /\ room_enabled = [r \in Rooms |-> TRUE]
    /\ room_targets = [r \in Rooms |-> None]
    /\ sensor = [s \in Sensors |-> 200]

\* runtime.phase, runtime.current_offset = next_phase_and_offset(...)
NpCall ==
    /\ np_out = <<>>
    /\ np_out' = next_phase_and_offset(np_in.control_type, np_in.phase, np_in.reached_target,
                                       np_in.current_offset, np_in.step_offset,
                                       np_in.max_offset, np_in.elapsed_boost_seconds,
                                       np_in.t_time)
    /\ UNCHANGED <<np_in, fw_in, fw_out, pf_in, pf_out>>
    /\ UNCHANGED cycleVars

\* The next cycle's call: the phase and offset are those just returned, the
\* reading and the clock are new, the settings stay.
NpFeed(reached_target, elapsed_boost_seconds) ==
    /\ np_out # <<>>
    /\ np_in.n < EngMaxCalls
    /\ np_in' = [np_in EXCEPT !.phase = np_out[1], !.current_offset = np_out[2],
                              !.reached_target = reached_target,
                              !.elapsed_boost_seconds = elapsed_boost_seconds,
                              !.n = @ + 1]
    /\ np_out' = <<>>
    /\ UNCHANGED <<fw_in, fw_out, pf_in, pf_out>>
    /\ UNCHANGED cycleVars

NextEngine ==
    \/ NpCall
    \/ \E b \in BOOLEAN, e \in 0..EngMaxElapsed : NpFeed(b, e)

SpecEngine == InitEngine /\ [][NextEngine]_vars

----------------------------------------------------------------------------
(* filter_weather_sensitive on its own: every list of up to FwMaxLen of     *)
(* three entity ids, every set of them as weather-sensitive, both answers   *)
(* of the outdoor policy                                                    *)

FwEntities == {"climate.floor", "climate.ac1", "script.heater1_on"}

FilterInputs ==
    [entity_ids : UNION {[1..k -> FwEntities] : k \in 0..FwMaxLen},
     weather_sensitive_climates : SUBSET FwEntities,
     is_outdoor_allowed : BOOLEAN]

InitFilter ==
    /\ InitEngineIdle
    /\ fw_in \in FilterInputs
    /\ fw_out = NotReturned
    /\ InitPureIdle
    /\ InitCoordinator
    /\ cycles = 0
    /\ options = DefaultOptions
    /\ room_enabled = [r \in Rooms |-> TRUE]
    /\ room_targets = [r \in Rooms |-> None]
    /\ sensor = [s \in Sensors |-> 200]

\* filter_weather_sensitive(category_entities, set(...), ac_allowed)
FwCall ==
    /\ ~fw_out.returned
    /\ fw_out' = [returned |-> TRUE,
                  result |-> filter_weather_sensitive(fw_in.entity_ids,
                                                      fw_in.weather_sensitive_climates,
                                                      fw_in.is_outdoor_allowed)]
    /\ UNCHANGED <<np_in, np_out, fw_in, pf_in, pf_out>>
    /\ UNCHANGED cycleVars

NextFilter == FwCall

SpecFilter == InitFilter /\ [][NextFilter]_vars

----------------------------------------------------------------------------
(* The other functions of engine.py on their own: one call of one function, *)
(* its arguments drawn from the bounds below.  select_category is called   *)
(* for two diffs with the same thresholds, merge_categories for each of    *)
(* the three categories with the same lists.                               *)

PfTemps == 200..(200 + PfMaxSpan)
PfLimits == {None} \cup PfTemps
PfEntities == {"climate.floor", "climate.ac1", "script.heater1_on"}
PfLists == UNION {[1..k -> PfEntities] : k \in 0..PfMaxLen}
PfMethods == {"min", "max", "median", "first", "mean", "mode"}

SelectInputs ==
    [fn : {"select_category"}, diffs : (0..PfMaxDiff) \X (0..PfMaxDiff),
     thresholds : [category2_diff : 0..PfMaxDiff, category3_diff : 0..PfMaxDiff],
     ac_allowed : BOOLEAN]

MergeInputs ==
    [fn : {"merge_categories"}, category_1 : PfLists, category_2 : PfLists,
     category_3 : PfLists]

\* min_temp and max_temp of a climate entity: either may be absent, and the
\* smaller is not above the larger.
SetpointInputs ==
    {i \in [fn : {"compute_setpoint"}, target : PfTemps, is_heating : BOOLEAN,
            control_type : ControlTypes, offset : 0..PfMaxOffset,
            climate_min_temp : PfLimits, climate_max_temp : PfLimits] :
        (i.climate_min_temp # None /\ i.climate_max_temp # None)
            => i.climate_min_temp <= i.climate_max_temp}

ReenterInputs ==
    [fn : {"should_reenter_boost"}, current : PfTemps, target : PfTemps,
     tolerance : 0..PfMaxBand, delta : 0..PfMaxBand, is_heating : BOOLEAN]

\* What the sensors of a room read: 21.3 and up, in tenths.
PfReadings == {t + 13 : t \in PfTemps}

AggregateInputs ==
    [fn : {"aggregate_temperature"},
     values : UNION {[1..k -> PfReadings] : k \in 0..PfMaxValues}, method : PfMethods]

InitPure ==
    /\ InitEngineIdle
    /\ InitFilterIdle
    /\ pf_in \in SelectInputs \cup MergeInputs \cup SetpointInputs \cup ReenterInputs
                 \cup AggregateInputs
    /\ pf_out = NotReturned
    /\ InitCoordinator
    /\ cycles = 0
    /\ options = DefaultOptions
    /\ room_enabled = [r \in Rooms |-> TRUE]
    /\ room_targets = [r \in Rooms |-> None]
    /\ sensor = [s \in Sensors |-> 200]

PfReturn(fn, result) ==
    /\ pf_in.fn = fn
    /\ ~pf_out.returned
    /\ pf_out' = [returned |-> TRUE, result |-> result]
    /\ UNCHANGED <<np_in, np_out, fw_in, fw_out, pf_in>>
    /\ UNCHANGED cycleVars

\* category = select_category(diff, thresholds, ac_allowed), for each of the two diffs
SelectCall ==
    /\ pf_in.fn = "select_category"
    /\ PfReturn("select_category",
                [k \in 1..2 |-> select_category(pf_in.diffs[k], pf_in.thresholds,
                                                pf_in.ac_allowed)])

\* merge_categories(category_1, category_2, category_3, n), for n = 1, 2, 3
MergeCall ==
    /\ pf_in.fn = "merge_categories"
    /\ PfReturn("merge_categories",
                [n \in 1..3 |-> merge_categories(pf_in.category_1, pf_in.category_2,
                                                 pf_in.category_3, n)])

\* setpoint = compute_setpoint(target, is_heating, control_type, offset, min, max)
SetpointCall ==
    /\ pf_in.fn = "compute_setpoint"
    /\ PfReturn("compute_setpoint",
                compute_setpoint(pf_in.target, pf_in.is_heating, pf_in.control_type,
                                 pf_in.offset, pf_in.climate_min_temp,
                                 pf_in.climate_max_temp))

\* should_reenter_boost(current, target, tolerance, delta, is_heating)
ReenterCall ==
    /\ pf_in.fn = "should_reenter_boost"
    /\ PfReturn("should_reenter_boost",
                should_reenter_boost(pf_in.current, pf_in.target, pf_in.tolerance,
                                     pf_in.delta, pf_in.is_heating))

\* The floats that _read_room_temperature makes of the sensors' states.
PfFloats == [i \in 1..Len(pf_in.values) |-> float_of_tenths(pf_in.values[i])]

\* values.append(float(state.state)) for each sensor, and then
\* aggregate_temperature(values, method)
AggregateCall ==
    /\ pf_in.fn = "aggregate_temperature"
    /\ PfReturn("aggregate_temperature", FloatAggregate(PfFloats, pf_in.method))

NextPure ==
    \/ SelectCall
    \/ MergeCall
    \/ SetpointCall
    \/ ReenterCall
    \/ AggregateCall

SpecPure == InitPure /\ [][NextPure]_vars

\* The call of function fn has returned.
PfReturned(fn) == pf_in.fn = fn /\ pf_out.returned

----------------------------------------------------------------------------
(* One control cycle from every arrangement of the rooms that share the    *)
(* floor unit: the strategy, the rooms' switches, targets and readings      *)

\* shared_arbitration and priority_room as configured.
ArbitrationChoices ==
    {<<"max_demand", "">>, <<"average_request", "">>, <<"priority_room", "">>,
     <<"priority_room", "r2">>, <<"priority_room", "r3">>}

\* Per-room targets: r2 may ask for 23.0 C and r3 for 21.0 C.
TargetChoices ==
    {[r \in Rooms |-> IF r = "r2" THEN t2 ELSE IF r = "r3" THEN t3 ELSE None] :
        t2 \in {None, 230}, t3 \in {None, 210}}

\* Readings below and above the targets, and a sensor of r2 without a reading.
ReadingChoices ==
    {[s \in Sensors |-> IF s = "sensor.r1" THEN v1 ELSE IF s = "sensor.r2" THEN v2 ELSE v3] :
        v1 \in {200, 240}, v2 \in {None, 205, 250}, v3 \in {210, 240}}

\* mode and ac_missing_outdoor_policy as configured; no outdoor source is set up,
\* so that the outdoor reading is missing.
SettingChoices ==
    {<<MODE_GLOBAL, OUTDOOR_POLICY_BLOCK>>, <<MODE_OFF, "allow">>}

\* The options of the entry: each strategy with the default settings, and the
\* default strategy with each of the other settings.
OptionChoices ==
    {[DefaultOptions EXCEPT !.shared_arbitration = a[1], !.priority_room = a[2]] :
        a \in ArbitrationChoices}
    \cup {[DefaultOptions EXCEPT !.mode = c[1], !.ac_missing_outdoor_policy = c[2]] :
             c \in SettingChoices}

\* The coordinator's first refresh is the one cycle left to run.
InitShared ==
    /\ InitEngineIdle
    /\ InitFilterIdle
    /\ InitPureIdle
    /\ InitCoordinator
    /\ cycles = MaxCycles - 1
    /\ options \in OptionChoices
    /\ room_enabled \in [Rooms -> BOOLEAN]
    /\ room_targets \in TargetChoices
    /\ sensor \in ReadingChoices

NextShared ==
    \/ \E p \in Requesters : Request(p)
    \/ \E p \in Requesters : Acquire(p)
    \/ \E p \in Requesters : RoomStep(p)
    \/ \E p \in Requesters : SharedStep(p)
    \/ Tick
    \/ \E c \in Climates : DeviceApply(c)

SpecShared == InitShared /\ [][NextShared]_vars

----------------------------------------------------------------------------
(* Cycles that may raise: both callers, each pass of the loop and the       *)
(* arbitration either done or left by an exception                          *)

\* The most service calls of one pass or of one arbitration before the one that
\* raises.
FailCalls == 0..3

\* A step of caller p inside _async_update_data.
CycleStep(p) ==
    \/ Acquire(p)
    \/ RoomStep(p)
    \/ SharedStep(p)
    \/ \E k \in FailCalls : RoomFail(p, k)
    \/ \E k \in FailCalls : SharedFail(p, k)

NextFail ==
    \/ \E p \in Requesters : RequestWithin(p, FlMaxCycles)
    \/ \E p \in Requesters : CycleStep(p)
    \/ Tick
    \/ \E c \in Climates : DeviceApply(c)

\* asyncio.Lock hands itself to its waiters in the order in which they came: a
\* caller that waits while the lock comes free again and again gets it.
SpecFail == Init /\ [][NextFail]_vars /\ \A p \in Requesters : SF_vars(Acquire(p))

----------------------------------------------------------------------------
(* A longer run of the update-interval timer alone: up to RtMaxCycles       *)
(* cycles one after another, while the clock moves on to RtMaxTime and the  *)
(* reading and the switch of room r1 change up to RtMaxChanges times        *)

\* What sensor.r1 reads in the longer run: nothing, 20.0 C below the band and
\* 22.0 C in the band.
RoomReadings == {None, 200, 220}

NextRoom ==
    \/ RequestWithin("timer", RtMaxCycles)
    \/ Acquire("timer")
    \/ RoomStep("timer")
    \/ SharedStep("timer")
    \/ TickWithin(RtMaxTime)
    \/ \E s \in ChangingSensors, v \in RoomReadings : SensorChangeWithin(s, v, RtMaxChanges)
    \/ \E b \in BOOLEAN : SetRoomEnabledWithin("r1", b, RtMaxChanges)
    \/ \E c \in Climates : DeviceApply(c)

SpecRoom == Init /\ [][NextRoom]_vars

----------------------------------------------------------------------------
(* The coordinator from its construction: _load_configuration with one of   *)
(* several lists of rooms, up to CfMaxLoads times, and the cycles of the     *)
(* timer in between                                                         *)

\* The rooms of the entry without room r1.
rooms_without_r1 == Tail(rooms_data)

\* The rooms of the entry where room r2 has the floor unit in its first heating
\* category and not among its shared_climates; r1 and r3 list it as shared.
rooms_floor_unshared == [rooms_data EXCEPT ![2].shared_climates = <<>>]

ConfigChoices == {rooms_data, rooms_without_r1, rooms_floor_unshared}

\* The state after SmartClimateCoordinator.__init__: no rooms, no runtime.
InitConstructed ==
    /\ InitEngineIdle
    /\ InitFilterIdle
    /\ InitPureIdle
    /\ now = 0
    /\ outdoor = None
    /\ hass = [c \in Climates |-> [state |-> "off", temperature |-> None]]
    /\ pending = [c \in Climates |-> [state |-> "", temperature |-> None]]
    /\ _rooms = <<>>
    /\ _shared_map = BuildSharedMap(<<>>)
    /\ runtime = <<>>
    /\ device_state = [e \in Entities |-> None]
    /\ lock = NoHolder
    /\ pc = [p \in Requesters |-> "idle"]
    /\ cyc = [p \in Requesters |-> NoCycle]
    /\ calls = <<>>
    /\ arbitration = <<>>
    /\ data = NoData
    /\ last_call = [e \in Entities |-> None]
    /\ changes = 0
    /\ cycles = 0
    /\ options = DefaultOptions
    /\ room_enabled = [r \in Rooms |-> TRUE]
    /\ room_targets = [r \in Rooms |-> None]
    /\ \E v \in {200, 220} :
          sensor = [s \in Sensors |-> IF s \in ChangingSensors THEN v ELSE 200]

NextConfig ==
    \/ \E rooms \in ConfigChoices : _load_configuration(rooms)
    \/ RequestWithin("timer", CfMaxCycles)
    \/ Acquire("timer")
    \/ RoomStep("timer")
    \/ SharedStep("timer")
    \/ Tick
    \/ \E c \in Climates : DeviceApply(c)

SpecConfig == InitConstructed /\ [][NextConfig]_vars

----------------------------------------------------------------------------
(* The timer firing without end under settings that stay as they are, and   *)
(* readings that stay as they are: each cycle runs to its end, and the      *)
(* clock moves on between cycles until RpMaxTime                            *)

\* A step of the timer's cycle.
TimerCycle ==
    \/ TimerFires
    \/ Acquire("timer")
    \/ RoomStep("timer")
    \/ SharedStep("timer")

NextRamp ==
    \/ TimerCycle
    \/ TickWithin(RpMaxTime)
    \/ \E c \in Climates : DeviceApply(c)

\* The clock, which can move on between any two cycles before RpMaxTime, does.
SpecRamp == Init /\ [][NextRamp]_vars /\ SF_vars(TickWithin(RpMaxTime))

----------------------------------------------------------------------------
(* Properties of the lock and of the commands (specification Spec)         *)

InCycle(p) == pc[p] \in {"rooms", "shared"}

\* C1: at most one caller of _async_update_data is inside
\* _async_run_control_cycle at any time, and it is the holder of the lock; so
\* the commands of two cycles are never interleaved.
C1_OneCycleAtATime ==
    /\ Cardinality({p \in Requesters : InCycle(p)}) <= 1
    /\ \A p \in Requesters : InCycle(p) => lock = p

\* A cycle is running while another caller waits for the lock.
C1_Witness ==
    \E p, q \in Requesters : p # q /\ InCycle(p) /\ pc[q] = "waiting" /\ calls # <<>>

\* The first service call of a command (one _async_set_climate or one
\* _async_call_service_entity that got past _can_act).
StartsCommand(i) == calls[i].inv = i

----------------------------------------------------------------------------
(* Properties of the phase machine over cycles (specification Spec)         *)

\* The step is the pass of caller p's loop over room_id.
ProcessesRoom(p, room_id) ==
    /\ pc[p] = "rooms"
    /\ RoomIds[cyc[p].idx] = room_id
    /\ cyc'[p].idx = cyc[p].idx + 1

\* The room's reading is outside the tolerance band by less than delta.
DriftBelowDelta(room_id) ==
    LET current == _read_room_temperature(RoomConfig[room_id])
        target == _room_target(room_id)
        tolerance == _room_tolerance(room_id)
        delta == _opt("delta")
    IN /\ current # None
       /\ \/ (target - tolerance) - delta < current /\ current < target - tolerance
          \/ target + tolerance < current /\ current < (target + tolerance) + delta

\* C3: a controlled room in hold at the start of a cycle whose reading is outside
\* the band by less than delta is in hold after the cycle has processed it.
C3_HoldUntilDelta ==
    [][\A p \in Requesters, room_id \in Rooms :
          ( /\ ProcessesRoom(p, room_id)
            /\ cyc[p].mode # MODE_OFF
            /\ _room_enabled(room_id)
            /\ runtime[room_id].phase = PHASE_HOLD
            /\ DriftBelowDelta(room_id) )
          => runtime'[room_id].phase = PHASE_HOLD]_vars

\* The step ends a control cycle.
EndsCycle == \E p \in Requesters : pc[p] = "shared" /\ pc'[p] = "idle"

\* After a cycle every room's offset is within 0..max_offset of that cycle.
C7_OffsetBounded ==
    EndsCycle =>
        \A room_id \in Rooms :
            /\ 0 <= runtime'[room_id].current_offset
            /\ runtime'[room_id].current_offset <= _opt("max_offset")

\* A pass of the loop leaves a room's phase and offset as they were or as some
\* call of next_phase_and_offset with the room's offset returns them.
C7_OnlyByTransition ==
    \A p \in Requesters, room_id \in Rooms :
        ProcessesRoom(p, room_id) =>
            \/ /\ runtime'[room_id].phase = runtime[room_id].phase
               /\ runtime'[room_id].current_offset = runtime[room_id].current_offset
            \/ \E phase \in Phases, reached \in BOOLEAN, elapsed \in 0..MaxTime :
                  <<runtime'[room_id].phase, runtime'[room_id].current_offset>> =
                      next_phase_and_offset(cyc[p].control_type, phase, reached,
                                            runtime[room_id].current_offset,
                                            _opt("step_offset"), _opt("max_offset"),
                                            elapsed, _opt("t_time"))

\* C7: after every control cycle each room's offset is within 0..max_offset in
\* effect for that cycle, and a room's phase and offset change only to a result
\* of next_phase_and_offset.
C7_OffsetInvariant == [][C7_OffsetBounded /\ C7_OnlyByTransition]_vars

----------------------------------------------------------------------------
(* Properties of next_phase_and_offset (specification SpecEngine)          *)

Returned == np_out # <<>>

\* C4: with reached_target the result is (hold, 0) whatever the profile, the
\* phase, the offset and the elapsed time; so a call from (hold, 0) with
\* reached_target returns (hold, 0) again.
C4_ReachedWins ==
    (Returned /\ np_in.reached_target) => np_out = <<PHASE_HOLD, 0>>

\* A result (hold, 0) was given back as phase and offset, and with reached_target
\* the next call returned (hold, 0); on the way a boost with an offset was ended.
C4_Witness ==
    /\ Returned
    /\ np_in.n >= 1
    /\ np_in.reached_target
    /\ np_in.phase = PHASE_HOLD
    /\ np_in.current_offset = 0
    /\ np_out = <<PHASE_HOLD, 0>>

\* C5: profile normal, target not reached: from idle or hold the result is
\* (boost, min(step_offset, max_offset)); from boost it is
\* (boost, min(current_offset + step_offset, max_offset)) once elapsed >= t_time
\* and (boost, current_offset) before.
C5_NormalRamp ==
    (Returned /\ np_in.control_type = TYPE_NORMAL /\ ~np_in.reached_target) =>
        IF np_in.phase \in {PHASE_IDLE, PHASE_HOLD}
        THEN np_out = <<PHASE_BOOST, Min2(np_in.step_offset, np_in.max_offset)>>
        ELSE IF np_in.elapsed_boost_seconds >= np_in.t_time
        THEN np_out = <<PHASE_BOOST,
                        Min2(np_in.current_offset + np_in.step_offset, np_in.max_offset)>>
        ELSE np_out = <<PHASE_BOOST, np_in.current_offset>>

\* A boost entered by an earlier call is ramped into the clamp.
C5_Witness ==
    /\ Returned
    /\ np_in.n >= 1
    /\ np_in.control_type = TYPE_NORMAL
    /\ ~np_in.reached_target
    /\ np_in.phase = PHASE_BOOST
    /\ np_in.elapsed_boost_seconds >= np_in.t_time
    /\ np_in.current_offset < np_in.max_offset
    /\ np_in.current_offset + np_in.step_offset > np_in.max_offset
    /\ np_out = <<PHASE_BOOST, np_in.max_offset>>

\* C6: profile fast or extreme, target not reached: the result is
\* (boost, max_offset) from idle, hold and boost alike, whatever current_offset,
\* step_offset, the elapsed time and t_time.
C6_FastExtremeJump ==
    (Returned /\ np_in.control_type \in {TYPE_FAST, TYPE_EXTREME} /\ ~np_in.reached_target) =>
        np_out = <<PHASE_BOOST, np_in.max_offset>>

\* From hold, with a step smaller than max_offset and no time elapsed, the offset
\* is max_offset at once.
C6_Witness ==
    /\ Returned
    /\ np_in.control_type \in {TYPE_FAST, TYPE_EXTREME}
    /\ ~np_in.reached_target
    /\ np_in.phase = PHASE_HOLD
    /\ np_in.step_offset < np_in.max_offset
    /\ np_in.elapsed_boost_seconds < np_in.t_time
    /\ np_out = <<PHASE_BOOST, np_in.max_offset>>

----------------------------------------------------------------------------
(* Properties of the shared-device arbitration (specification SpecShared)  *)

\* The rooms of a shared device that the cycle found enabled and with a reading.
CountedRooms(climate_entity) ==
    {r \in Range(shared_map(climate_entity)) :
        runtime[r].enabled /\ runtime[r].current_temp # None}

Commanded(a) == a.outcome = "set_climate"

\* C8: a shared device is commanded only from the demands of rooms that are
\* enabled and have a reading: every demand comes from such a room, the direction
\* is the selected demand's, the target is the extreme of those rooms' targets,
\* with one such room the selected demand is that room's, and a device none of
\* whose rooms is enabled with a reading gets no service call.
C8_SharedCountsEnabledRooms ==
    /\ \A i \in DOMAIN arbitration :
          LET a == arbitration[i]
              counted == CountedRooms(a.entity_id)
              targets == {runtime[r].target_temp : r \in counted}
          IN Commanded(a) =>
                /\ counted # {}
                /\ \A j \in DOMAIN a.demands : a.demands[j].room_id \in counted
                /\ a.is_heating = (a.selected[1].direction = "heat")
                /\ a.target = IF a.is_heating THEN SetMax(targets) ELSE SetMin(targets)
                /\ Cardinality(counted) = 1 =>
                      /\ Len(a.demands) = 1
                      /\ a.selected[1].direction = a.demands[1].direction
                      /\ a.selected[1].diff = a.demands[1].diff
    /\ \A k \in DOMAIN calls :
          calls[k].entity_id \in SharedClimates =>
              /\ calls[k].by = "shared"
              /\ CountedRooms(calls[k].entity_id) # {}

\* Two of the three rooms are switched off and the unit is commanded with the
\* demand of the third.
C8_Witness ==
    \E i \in DOMAIN arbitration :
        /\ Commanded(arbitration[i])
        /\ arbitration[i].sent
        /\ Cardinality(CountedRooms(arbitration[i].entity_id)) = 1
        /\ Cardinality({r \in Rooms : ~room_enabled[r]}) = 2
        /\ \E k \in DOMAIN calls : calls[k].entity_id = arbitration[i].entity_id

\* C9: under priority_room a shared device with demands is commanded: with the
\* priority room's demand when that room is among the demanding rooms, and with
\* the demand of largest diff when it is not.
C9_PriorityRoomFallback ==
    \A i \in DOMAIN arbitration :
        LET a == arbitration[i]
            IsPriority(d) == d.room_id = a.priority_room
        IN (a.strategy = "priority_room" /\ a.priority_room # ""
                /\ a.involved_rooms # <<>>) =>
              /\ Commanded(a)
              /\ IF SelectSeq(a.demands, IsPriority) # <<>>
                 THEN a.selected[1].room_id = a.priority_room
                 ELSE a.selected = <<MaxDemand(a.demands)>>

\* C10: under max_demand the selected demand is one of the demands and none has
\* a larger diff; the command heats exactly when that demand is a heat demand,
\* and its target is the largest target of the involved rooms when heating and
\* the smallest when cooling; a set_hvac_mode sent to the device asks for that
\* direction.
C10_MaxDemand ==
    \A i \in DOMAIN arbitration :
        LET a == arbitration[i]
        IN (a.strategy = "max_demand" /\ a.involved_rooms # <<>>) =>
              /\ Commanded(a)
              /\ \E j \in DOMAIN a.demands : a.selected[1] = a.demands[j]
              /\ \A j \in DOMAIN a.demands : a.demands[j].diff <= a.selected[1].diff
              /\ a.is_heating = (a.selected[1].direction = "heat")
              /\ a.target = IF a.is_heating THEN SetMax(Range(a.involved_targets))
                            ELSE SetMin(Range(a.involved_targets))
              /\ \A k \in DOMAIN calls :
                    (calls[k].entity_id = a.entity_id /\ calls[k].service = "set_hvac_mode")
                        => calls[k].hvac_mode = mode_hvac(a.selected[1].direction = "heat")

\* Rooms with different targets ask for different directions, and the larger
\* demand, a cooling one, sets the smallest target.
C10_Witness ==
    \E i \in DOMAIN arbitration :
        LET a == arbitration[i]
        IN /\ a.strategy = "max_demand"
           /\ Commanded(a)
           /\ a.sent
           /\ ~a.is_heating
           /\ \E j \in DOMAIN a.demands :
                 a.demands[j].direction = "heat" /\ a.demands[j].diff < a.selected[1].diff
           /\ Cardinality(Range(a.involved_targets)) >= 2
           /\ a.target = SetMin(Range(a.involved_targets))

----------------------------------------------------------------------------
(* Properties of average_request (specification SpecShared)                 *)

DemandsOf(a, direction) ==
    LET Is(d) == d.direction = direction
    IN SelectSeq(a.demands, Is)

DiffSum(ds) == SeqSum([i \in 1..Len(ds) |-> ds[i].diff])

\* C11: under average_request a shared device with involved rooms is commanded
\* in a direction whose group of demanding rooms is not empty and at least as
\* large as the other direction's group, and the diff of the synthetic demand is
\* the arithmetic mean of that group's diffs (to the tenth of a degree that the
\* numbers here keep: n * diff <= sum < n * (diff + 1)).
C11_AverageRequest ==
    \A i \in DOMAIN arbitration :
        LET a == arbitration[i]
            direction == a.selected[1].direction
            group == DemandsOf(a, direction)
            other == DemandsOf(a, IF direction = "heat" THEN "cool" ELSE "heat")
        IN (a.strategy = "average_request" /\ a.involved_rooms # <<>>) =>
              /\ Commanded(a)
              /\ direction \in {"heat", "cool"}
              /\ Len(group) >= 1
              /\ Len(group) >= Len(other)
              /\ Len(group) * a.selected[1].diff <= DiffSum(group)
              /\ DiffSum(group) < Len(group) * (a.selected[1].diff + 1)
              /\ a.is_heating = (direction = "heat")

\* Two rooms ask for heat by different amounts, one asks for cooling by more than
\* either, and the unit is commanded to heat by the mean of the two.
C11_Witness ==
    \E i \in DOMAIN arbitration :
        LET a == arbitration[i]
            heat == DemandsOf(a, "heat")
            cool == DemandsOf(a, "cool")
        IN /\ a.strategy = "average_request"
           /\ Commanded(a)
           /\ a.sent
           /\ Len(heat) = 2 /\ Len(cool) = 1
           /\ heat[1].diff # heat[2].diff
           /\ cool[1].diff > heat[1].diff /\ cool[1].diff > heat[2].diff
           /\ a.selected[1].direction = "heat"
           /\ 2 * a.selected[1].diff <= heat[1].diff + heat[2].diff
           /\ heat[1].diff + heat[2].diff < 2 * (a.selected[1].diff + 1)

----------------------------------------------------------------------------
(* Properties of a shared device whose rooms are satisfied (SpecShared)     *)

\* The last control cycle has returned and none is running.
CycleReturned == data # NoData /\ \A p \in Requesters : pc[p] = "idle"

\* The room's reading is within the tolerance of its target.
Satisfied(room_id) ==
    within_target(runtime[room_id].current_temp, runtime[room_id].target_temp,
                  runtime[room_id].tolerance)

\* C12: when the rooms that count for a shared device are all within tolerance,
\* so that the winning room is, the arbitration step of the cycle still commands
\* the device: with a target of those rooms, offset 0 and skip_hvac true.
C12_SharedHeldAtZeroDemand ==
    CycleReturned =>
        \A climate_entity \in SharedClimates :
            LET counted == CountedRooms(climate_entity)
            IN (counted # {} /\ \A r \in counted : Satisfied(r)) =>
                  \E i \in DOMAIN arbitration :
                      /\ arbitration[i].entity_id = climate_entity
                      /\ Commanded(arbitration[i])
                      /\ arbitration[i].target \in {runtime[r].target_temp : r \in counted}
                      /\ arbitration[i].offset = 0
                      /\ arbitration[i].skip_hvac

----------------------------------------------------------------------------
(* Properties of the order of a cycle's two phases (specification Spec)     *)

SharedCalls == {k \in DOMAIN calls : calls[k].by = "shared"}

\* The report of room_id in self.data.
ReportOf(room_id) ==
    data.rooms[CHOOSE k \in DOMAIN data.rooms : data.rooms[k].room_id = room_id]

\* C13: while a cycle is in its loop over the rooms no shared device has been
\* commanded or arbitrated in that cycle, and the arbitration step starts with
\* every configured room processed; the demands it works on are those of the
\* cycle's own report: one per demanding room that lists the device, with the
\* direction and the diff reported for that room in this cycle.
C13_TwoPhases ==
    /\ \A p \in Requesters :
          /\ InCycle(p) => (SharedCalls = {} /\ arbitration = <<>>)
          /\ pc[p] = "shared" =>
                {cyc[p].room_payload[k].room_id : k \in DOMAIN cyc[p].room_payload} = Rooms
    /\ (SharedCalls # {} \/ arbitration # <<>>) =>
          {data.rooms[k].room_id : k \in DOMAIN data.rooms} = Rooms
    /\ \A i \in DOMAIN arbitration :
          LET a == arbitration[i]
          IN /\ \A j \in DOMAIN a.demands :
                   /\ a.demands[j].room_id \in Range(shared_map(a.entity_id))
                   /\ ReportOf(a.demands[j].room_id).demand = a.demands[j].direction
                   /\ ReportOf(a.demands[j].room_id).demand_delta = a.demands[j].diff
                   /\ \A k \in DOMAIN a.demands :
                         a.demands[k].room_id = a.demands[j].room_id => k = j
             /\ \A r \in Range(shared_map(a.entity_id)) :
                   ReportOf(r).demand # "none" =>
                       \E j \in DOMAIN a.demands : a.demands[j].room_id = r

\* r1 asked for heat in an earlier cycle (its heater was switched on then) and is
\* satisfied in this one: the floor unit is arbitrated without a demand of r1.
C13_Witness ==
    /\ CycleReturned
    /\ last_call["script.heater1_on"] # None
    /\ ReportOf("r1").demand = "none"
    /\ ReportOf("r1").phase = PHASE_HOLD
    /\ \E i \in DOMAIN arbitration :
          /\ Commanded(arbitration[i])
          /\ Len(arbitration[i].demands) = 2
          /\ \A j \in DOMAIN arbitration[i].demands : arbitration[i].demands[j].room_id # "r1"

----------------------------------------------------------------------------
(* Properties of the rooms' own steps (specification Spec)                  *)

\* C14: the pass of a cycle's loop over a room, whether it activates the room's
\* devices or turns them off after the target is reached, issues no service call
\* to a device of the room's shared_climates and leaves that device's last action
\* time and outstanding calls as they were; every call of the pass is the room's.
C14_RoomNeverDrivesShared ==
    [][\A p \in Requesters, room_id \in Rooms :
          ProcessesRoom(p, room_id) =>
              /\ \A e \in Range(RoomConfig[room_id].shared_climates) :
                    /\ last_call'[e] = last_call[e]
                    /\ device_state'[e] = device_state[e]
                    /\ pending'[e] = pending[e]
              /\ \A k \in (DOMAIN calls') \ (DOMAIN calls) :
                    /\ calls'[k].by = room_id
                    /\ calls'[k].entity_id \notin Range(RoomConfig[room_id].shared_climates)]_vars

\* r1, whose first heating category holds the shared floor unit, has commanded
\* its own unit in the running cycle while the floor unit, switched on by an
\* earlier cycle, has had no call in this one.
C14_Witness ==
    /\ \E p \in Requesters : pc[p] = "rooms"
    /\ "climate.floor" \in Range(RoomConfig["r1"].heat_category_1)
    /\ hass["climate.floor"].state = "heat"
    /\ \E k \in DOMAIN calls : calls[k].by = "r1" /\ calls[k].entity_id = "climate.ac1"
    /\ \A k \in DOMAIN calls : calls[k].entity_id # "climate.floor"

----------------------------------------------------------------------------
(* Properties of the devices a room leaves behind (specification Spec)      *)

\* The direction and the category of the room's demand in the cycle reported.
ReportedHeating(room_id) == ReportOf(room_id).demand = "heat"

ReportedCategory(room_id) ==
    IF ReportedHeating(room_id) THEN runtime[room_id].active_category_heat
    ELSE runtime[room_id].active_category_cool

\* The dumb devices of the room that the direction and the category select.
SelectedDumbs(room, is_heating, category) ==
    {i \in DOMAIN room.dumb_devices :
        should_activate_dumb_device(category, room.dumb_devices[i].category, is_heating,
                                    room.dumb_devices[i].device_type,
                                    room.dumb_devices[i].participation)}

\* The entities of the room that the direction and the category select.
SelectedEntities(room, is_heating, category) ==
    Range(filter_weather_sensitive(
              IF is_heating
              THEN merge_categories(room.heat_category_1, room.heat_category_2,
                                    room.heat_category_3, category)
              ELSE merge_categories(room.cool_category_1, room.cool_category_2,
                                    room.cool_category_3, category),
              Range(room.weather_sensitive_climates),
              _ac_allowed(_read_outdoor_temp, is_heating)))

\* Every entity of the room's category lists, of both directions and all tiers.
AllCategoryEntities(room) ==
    Range(merge_categories(room.heat_category_1, room.heat_category_2,
                           room.heat_category_3, 3))
        \cup Range(merge_categories(room.cool_category_1, room.cool_category_2,
                                    room.cool_category_3, 3))

\* A turn_off of a climate entity or a run of a script, issued in the cycle.
CalledOff(entity_id) ==
    \E k \in DOMAIN calls : calls[k].entity_id = entity_id /\ calls[k].service = "turn_off"

CalledScript(entity_id) ==
    \E k \in DOMAIN calls :
        calls[k].entity_id = entity_id /\ calls[k].domain = "script"
            /\ calls[k].service = "turn_on"

\* C15: in a cycle in which a room has a demand, each of its climate entities
\* that is not shared and not selected for the demand's direction and category
\* (so that it belongs to the other direction or to a higher category) is turned
\* off, and each of its participating dumb devices that is not selected has its
\* off_script run; a selected entity is not turned off and the off_script of a
\* selected dumb device is not run.
C15_StaleDevicesDeactivated ==
    CycleReturned =>
        \A room_id \in Rooms :
            LET room == RoomConfig[room_id]
                is_heating == ReportedHeating(room_id)
                category == ReportedCategory(room_id)
                selected == SelectedEntities(room, is_heating, category)
                dumbs == SelectedDumbs(room, is_heating, category)
            IN ReportOf(room_id).demand # "none" =>
                  /\ \A e \in AllCategoryEntities(room) \ Range(room.shared_climates) :
                        IF e \in selected THEN ~CalledOff(e) ELSE CalledOff(e)
                  /\ \A i \in DOMAIN room.dumb_devices :
                        IF i \in dumbs
                        THEN ~CalledScript(room.dumb_devices[i].off_script)
                        ELSE room.dumb_devices[i].participation # DUMB_PARTICIPATION_OFF
                                 => CalledScript(room.dumb_devices[i].off_script)

----------------------------------------------------------------------------
(* Properties of the outdoor policy (specification SpecShared)              *)

\* The entities of the direction's third category that are in neither of its
\* first two.
TierThreeOnly(room, is_heating) ==
    IF is_heating
    THEN Range(room.heat_category_3)
             \ (Range(room.heat_category_1) \cup Range(room.heat_category_2))
    ELSE Range(room.cool_category_3)
             \ (Range(room.cool_category_1) \cup Range(room.cool_category_2))

\* The room's own step has sent the entity an activation call in the cycle.
Activated(room_id, entity_id) ==
    \E k \in DOMAIN calls :
        /\ calls[k].by = room_id
        /\ calls[k].entity_id = entity_id
        /\ calls[k].service \in {"set_hvac_mode", "set_temperature", "turn_on"}

\* C16: with no outdoor reading and the policy block, no room's selected category
\* is 3, and no entity that is only in the third category of the direction a room
\* asks for is activated by that room.
C16_BlockedWithoutOutdoor ==
    (_read_outdoor_temp = None /\ _opt("ac_missing_outdoor_policy") = OUTDOOR_POLICY_BLOCK) =>
        \A room_id \in Rooms :
            /\ runtime[room_id].active_category_heat # 3
            /\ runtime[room_id].active_category_cool # 3
            /\ runtime[room_id].active_category_heat > 0 =>
                  \A e \in TierThreeOnly(RoomConfig[room_id], TRUE) : ~Activated(room_id, e)
            /\ runtime[room_id].active_category_cool > 0 =>
                  \A e \in TierThreeOnly(RoomConfig[room_id], FALSE) : ~Activated(room_id, e)

----------------------------------------------------------------------------
(* Properties of filter_weather_sensitive (specification SpecFilter)        *)

\* How often the entity occurs in the list.
Occurrences(entity_ids, e) == Cardinality({i \in DOMAIN entity_ids : entity_ids[i] = e})

\* The list is what is left of entity_ids when the entities of the set are
\* taken out: those are gone, the others occur as often as before, in the order
\* they had.
LeftWithout(result, entity_ids, removed) ==
    /\ \A e \in removed : Occurrences(result, e) = 0
    /\ \A e \in Range(entity_ids) \ removed :
          Occurrences(result, e) = Occurrences(entity_ids, e)
    /\ LET Stays(e) == e \notin removed
       IN result = SelectSeq(entity_ids, Stays)

\* C17 as stated: when the policy disallows, the result is the input without
\* every member of weather_sensitive_climates, whatever its kind, in the original
\* order; when the policy allows, the result is the input.
C17_RemovesEverySensitive ==
    fw_out.returned =>
        IF fw_in.is_outdoor_allowed THEN fw_out.result = fw_in.entity_ids
        ELSE LeftWithout(fw_out.result, fw_in.entity_ids, fw_in.weather_sensitive_climates)

\* C17: when the policy disallows, the result is the input without the climate
\* entities (ids that start with "climate.") of weather_sensitive_climates,
\* whatever tier they came from; every other entity, a script of the set
\* included, stays, in the original order; when the policy allows, the result is
\* the input.
C17_RemovesSensitiveClimates ==
    fw_out.returned =>
        IF fw_in.is_outdoor_allowed THEN fw_out.result = fw_in.entity_ids
        ELSE LeftWithout(fw_out.result, fw_in.entity_ids,
                         fw_in.weather_sensitive_climates \cap Climates)

\* A list of a sensitive climate, a sensitive script and another climate has lost
\* the first and kept the other two in their order.
C17_Witness ==
    /\ fw_out.returned
    /\ ~fw_in.is_outdoor_allowed
    /\ fw_in.entity_ids = <<"climate.ac1", "script.heater1_on", "climate.floor">>
    /\ fw_in.weather_sensitive_climates = {"climate.ac1", "script.heater1_on"}
    /\ fw_out.result = <<"script.heater1_on", "climate.floor">>

----------------------------------------------------------------------------
(* Properties of a room without a temperature (specification Spec)          *)

\* None of the room's sensors has a state that is a number.
NoReading(room_id) ==
    \A s \in Range(RoomConfig[room_id].temp_sensors) : sensor[s] = None

\* The report that the pass of caller p's loop has just added.
AddedReport(p) == cyc'[p].room_payload[Len(cyc'[p].room_payload)]

\* The pass over a room without a reading: the temperature is None, no service
\* call is issued, no demand recorded, the room is idle and reported so, and the
\* cycle goes on to the next room or to the arbitration.
NoTemperaturePass(p, room_id) ==
    /\ runtime'[room_id].current_temp = None
    /\ runtime'[room_id].phase = PHASE_IDLE
    /\ calls' = calls
    /\ last_call' = last_call
    /\ device_state' = device_state
    /\ pending' = pending
    /\ cyc'[p].shared_demands = cyc[p].shared_demands
    /\ Len(cyc'[p].room_payload) = Len(cyc[p].room_payload) + 1
    /\ AddedReport(p).room_id = room_id
    /\ AddedReport(p).current_temp = None
    /\ AddedReport(p).phase = PHASE_IDLE
    /\ AddedReport(p).phase_reason = "no_temperature"
    /\ AddedReport(p).demand = "none"
    /\ pc'[p] = IF room_id = RoomIds[Len(RoomIds)] THEN "shared" ELSE "rooms"

\* The arbitration of a cycle leaves the rooms without a temperature out, and the
\* cycle returns a report of every room.
NoTemperatureArbitration ==
    /\ \A i \in DOMAIN arbitration', room_id \in Rooms :
          runtime[room_id].current_temp = None =>
              /\ room_id \notin Range(arbitration'[i].involved_rooms)
              /\ \A j \in DOMAIN arbitration'[i].demands :
                    arbitration'[i].demands[j].room_id # room_id
    /\ {data'.rooms[k].room_id : k \in DOMAIN data'.rooms} = Rooms

\* C18: in a cycle in which none of a room's sensors gives a number, the room's
\* temperature is None and not 0, the room's pass issues no service call and
\* records no demand for a shared device, the room is idle and reported with
\* phase idle and reason no_temperature, the arbitration does not count it as
\* involved, and the cycle runs on to its report of every room.
C18_NoTemperatureNoControl ==
    [][/\ \A p \in Requesters, room_id \in Rooms :
             (ProcessesRoom(p, room_id) /\ NoReading(room_id)) =>
                 NoTemperaturePass(p, room_id)
       /\ EndsCycle => NoTemperatureArbitration]_vars

\* The sensor of r1 stopped giving a reading; the cycle that followed reported r1
\* with no_temperature, sent r1's own devices nothing and commanded the floor
\* unit for the other two rooms.
C18_Witness ==
    /\ CycleReturned
    /\ NoReading("r1")
    /\ ReportOf("r1").phase_reason = "no_temperature"
    /\ ReportOf("r1").current_temp = None
    /\ last_call["climate.ac1"] # None
    /\ \A k \in DOMAIN calls : calls[k].by = "shared"
    /\ \E i \in DOMAIN arbitration :
          /\ arbitration[i].sent
          /\ arbitration[i].involved_rooms = <<"r2", "r3">>

----------------------------------------------------------------------------
(* Properties of the mode and of the rooms' switches (SpecShared)           *)

\* The cycle of caller p runs in mode off, or the room is switched off.
LeftOut(p, room_id) == cyc[p].mode = MODE_OFF \/ ~room_enabled[room_id]

\* The pass took the room through the phase machine.
Controlled(p, room_id) ==
    /\ AddedReport(p).phase_reason \notin {"no_temperature", "mode_off", "room_disabled"}
    /\ runtime'[room_id].phase # PHASE_IDLE

\* The pass issued no service call and recorded no demand, and left the room idle.
IdlePass(p, room_id) ==
    /\ calls' = calls
    /\ last_call' = last_call
    /\ device_state' = device_state
    /\ pending' = pending
    /\ cyc'[p].shared_demands = cyc[p].shared_demands
    /\ runtime'[room_id].phase = PHASE_IDLE
    /\ AddedReport(p).room_id = room_id
    /\ AddedReport(p).phase = PHASE_IDLE
    /\ AddedReport(p).demand = "none"

\* C19 as stated: a room is controlled in a cycle exactly when the mode is not
\* off, the room is enabled and it has a reading; when the mode is off or the
\* room is disabled its pass issues no command and records no demand, the room is
\* idle, and the reason reported is mode_off or room_disabled.
C19_ModeAndEnabled ==
    [][\A p \in Requesters, room_id \in Rooms :
          ProcessesRoom(p, room_id) =>
              /\ Controlled(p, room_id) <=> (~LeftOut(p, room_id) /\ ~NoReading(room_id))
              /\ LeftOut(p, room_id) =>
                    /\ IdlePass(p, room_id)
                    /\ AddedReport(p).phase_reason =
                          IF cyc[p].mode = MODE_OFF THEN "mode_off" ELSE "room_disabled"]_vars

\* C19: a room is controlled in a cycle exactly when the mode is not off, the
\* room is enabled and it has a reading; when the mode is off or the room is
\* disabled its pass issues no command and records no demand and the room is
\* idle; the reason reported is no_temperature for a room without a reading,
\* else mode_off in mode off, else room_disabled.
C19_Participation ==
    [][\A p \in Requesters, room_id \in Rooms :
          ProcessesRoom(p, room_id) =>
              /\ Controlled(p, room_id) <=> (~LeftOut(p, room_id) /\ ~NoReading(room_id))
              /\ LeftOut(p, room_id) =>
                    /\ IdlePass(p, room_id)
                    /\ AddedReport(p).phase_reason =
                          IF NoReading(room_id) THEN "no_temperature"
                          ELSE IF cyc[p].mode = MODE_OFF THEN "mode_off"
                          ELSE "room_disabled"]_vars

\* r1 is switched off while it reads 2.0 C below its target: the cycle reports it
\* idle with room_disabled, sends its devices nothing and commands the floor unit
\* for another room.
C19_Witness ==
    /\ CycleReturned
    /\ ~room_enabled["r1"]
    /\ sensor["sensor.r1"] = 200
    /\ ReportOf("r1").phase = PHASE_IDLE
    /\ ReportOf("r1").phase_reason = "room_disabled"
    /\ calls # <<>>
    /\ \A k \in DOMAIN calls : calls[k].by = "shared"
    /\ \E i \in DOMAIN arbitration :
          arbitration[i].sent /\ "r1" \notin Range(arbitration[i].involved_rooms)

----------------------------------------------------------------------------
(* Properties of the dumb devices (specification Spec)                      *)

\* The pass has run the script.
RunInPass(entity_id) ==
    \E k \in (DOMAIN calls') \ (DOMAIN calls) :
        /\ calls'[k].entity_id = entity_id
        /\ calls'[k].domain = "script"
        /\ calls'[k].service = "turn_on"

\* Anti-flapping lets a call to the entity through at the start of the pass.
MayAct(entity_id) ==
    \/ device_state[entity_id] = None
    \/ now - device_state[entity_id] >= _opt("min_action_interval")

----------------------------------------------------------------------------
(* Properties of the commands to a climate entity (specification Spec)      *)

----------------------------------------------------------------------------
(* Properties of select_category (specification SpecPure)                   *)

\* C22: with category2_diff below category3_diff, select_category returns 1, 2 or
\* 3 for every diff from 0 up and either value of ac_allowed, and it returns for
\* the larger of two diffs a category that is not below the one of the smaller.
C22_SelectMonotonic ==
    (/\ PfReturned("select_category")
     /\ pf_in.thresholds.category2_diff < pf_in.thresholds.category3_diff) =>
        /\ \A k \in 1..2 : pf_out.result[k] \in {1, 2, 3}
        /\ pf_in.diffs[1] <= pf_in.diffs[2] => pf_out.result[1] <= pf_out.result[2]

\* Thresholds 1 and 3 with air conditioning allowed: diff 0 gives category 1 and
\* diff 3 gives category 3.
C22_Witness ==
    /\ PfReturned("select_category")
    /\ pf_in.thresholds = [category2_diff |-> 1, category3_diff |-> 3]
    /\ pf_in.ac_allowed
    /\ pf_in.diffs = <<0, 3>>
    /\ pf_out.result = <<1, 3>>

\* The category by the thresholds alone.
RawTier(diff, thresholds) ==
    IF diff < thresholds.category2_diff THEN 1
    ELSE IF diff < thresholds.category3_diff THEN 2 ELSE 3

\* C23: with ac_allowed false, select_category never returns 3, whatever the diff
\* and the thresholds: it returns 2 where the thresholds alone give 3, and 1 or 2
\* as the thresholds give them.
C23_NeverThreeWithoutAc ==
    (PfReturned("select_category") /\ ~pf_in.ac_allowed) =>
        \A k \in 1..2 :
            /\ pf_out.result[k] # 3
            /\ pf_out.result[k] =
                  (IF RawTier(pf_in.diffs[k], pf_in.thresholds) = 3 THEN 2
                   ELSE RawTier(pf_in.diffs[k], pf_in.thresholds))

\* Thresholds 1 and 3 without air conditioning: diff 4, beyond the upper
\* threshold, gives category 2, and diff 0 gives category 1.
C23_Witness ==
    /\ PfReturned("select_category")
    /\ ~pf_in.ac_allowed
    /\ pf_in.thresholds = [category2_diff |-> 1, category3_diff |-> 3]
    /\ pf_in.diffs = <<4, 0>>
    /\ RawTier(4, pf_in.thresholds) = 3
    /\ pf_out.result = <<2, 1>>

----------------------------------------------------------------------------
(* Properties of merge_categories (specification SpecPure)                  *)

\* The lists of categories 1 to n, one after the other.
TiersUpTo(n) ==
    pf_in.category_1 \o (IF n >= 2 THEN pf_in.category_2 ELSE <<>>)
                     \o (IF n >= 3 THEN pf_in.category_3 ELSE <<>>)

\* Where e comes first in the list s.
FirstIndex(s, e) == CHOOSE i \in 1..Len(s) : s[i] = e /\ \A j \in 1..(i - 1) : s[j] # e

\* out holds every element of s once, in the order of their first occurrences in s.
FirstSeen(out, s) ==
    /\ Range(out) = Range(s)
    /\ \A i, j \in 1..Len(out) : i < j => FirstIndex(s, out[i]) < FirstIndex(s, out[j])

\* C24: for n = 1, 2, 3 merge_categories returns the entities of the lists of
\* categories 1 to n, each once, in the order in which they first occur in the
\* lists put one after the other; the result for n is the beginning of the result
\* for n + 1, so the sets grow with n.
C24_MergeCumulative ==
    PfReturned("merge_categories") =>
        /\ \A n \in 1..3 : FirstSeen(pf_out.result[n], TiersUpTo(n))
        /\ \A n \in 1..2 :
              /\ Len(pf_out.result[n]) <= Len(pf_out.result[n + 1])
              /\ SubSeq(pf_out.result[n + 1], 1, Len(pf_out.result[n])) = pf_out.result[n]
              /\ Range(pf_out.result[n]) \subseteq Range(pf_out.result[n + 1])

\* The second list repeats an entity of the first and adds one, the third repeats
\* one more: two entities for category 1, three for categories 2 and 3.
C24_Witness ==
    /\ PfReturned("merge_categories")
    /\ pf_in.category_1 = <<"climate.floor", "climate.ac1">>
    /\ pf_in.category_2 = <<"climate.ac1", "script.heater1_on">>
    /\ pf_in.category_3 = <<"climate.floor">>
    /\ pf_out.result[1] = <<"climate.floor", "climate.ac1">>
    /\ pf_out.result[2] = <<"climate.floor", "climate.ac1", "script.heater1_on">>
    /\ pf_out.result[3] = pf_out.result[2]

----------------------------------------------------------------------------
(* Properties of compute_setpoint (specification SpecPure)                  *)

\* C25: when the entity has both a min_temp and a max_temp, the setpoint
\* compute_setpoint returns is not below min_temp and not above max_temp, whatever
\* the target, the direction, the profile and the offset.
C25_SetpointWithinLimits ==
    (/\ PfReturned("compute_setpoint")
     /\ pf_in.climate_min_temp # None
     /\ pf_in.climate_max_temp # None) =>
        /\ pf_in.climate_min_temp <= pf_out.result
        /\ pf_out.result <= pf_in.climate_max_temp

\* Heating under profile normal with target plus offset above max_temp, and
\* cooling with target minus offset below min_temp: the limit is returned.
C25_Witness ==
    /\ PfReturned("compute_setpoint")
    /\ pf_in.control_type = TYPE_NORMAL
    /\ pf_in.climate_min_temp = 201
    /\ pf_in.climate_max_temp = 203
    /\ \/ /\ pf_in.is_heating
          /\ pf_in.target + pf_in.offset > 203
          /\ pf_out.result = 203
       \/ /\ ~pf_in.is_heating
          /\ pf_in.target - pf_in.offset < 201
          /\ pf_out.result = 201

\* target plus offset when heating and target minus offset when cooling, raised to
\* min_temp and lowered to max_temp where the entity has them.
ClampedSetpoint ==
    LET raw == IF pf_in.is_heating THEN pf_in.target + pf_in.offset
               ELSE pf_in.target - pf_in.offset
    IN IF pf_in.climate_min_temp # None /\ raw < pf_in.climate_min_temp
       THEN pf_in.climate_min_temp
       ELSE IF pf_in.climate_max_temp # None /\ raw > pf_in.climate_max_temp
       THEN pf_in.climate_max_temp
       ELSE raw

\* C26: under profile extreme compute_setpoint returns max_temp when heating and
\* max_temp is known and min_temp when cooling and min_temp is known, whatever the
\* target and the offset; in every other case it returns target plus offset
\* (heating) or target minus offset (cooling), clamped on each side that is known.
C26_ExtremeSetpoint ==
    PfReturned("compute_setpoint") =>
        IF pf_in.control_type = TYPE_EXTREME /\ pf_in.is_heating
           /\ pf_in.climate_max_temp # None
        THEN pf_out.result = pf_in.climate_max_temp
        ELSE IF pf_in.control_type = TYPE_EXTREME /\ ~pf_in.is_heating
                /\ pf_in.climate_min_temp # None
        THEN pf_out.result = pf_in.climate_min_temp
        ELSE pf_out.result = ClampedSetpoint

\* Extreme heating towards 20.0 with offset 0 and limits 20.1 to 20.3 returns
\* 20.3, which is neither the target nor the target raised to min_temp.
C26_Witness ==
    /\ PfReturned("compute_setpoint")
    /\ pf_in.control_type = TYPE_EXTREME
    /\ pf_in.is_heating
    /\ pf_in.target = 200
    /\ pf_in.offset = 0
    /\ pf_in.climate_min_temp = 201
    /\ pf_in.climate_max_temp = 203
    /\ pf_out.result = 203
    /\ ClampedSetpoint = 201

----------------------------------------------------------------------------
(* Properties of should_reenter_boost (specification SpecPure)              *)

\* How far current is past the edge of the band on the side of the demand: below
\* target - tolerance when heating, above target + tolerance when cooling.
DriftPastEdge ==
    IF pf_in.is_heating THEN (pf_in.target - pf_in.tolerance) - pf_in.current
    ELSE pf_in.current - (pf_in.target + pf_in.tolerance)

----------------------------------------------------------------------------
(* Properties of aggregate_temperature (specification SpecPure)             *)

\* x is a smallest of the floats read, or a largest.
IsSmallest(x) == x \in Range(PfFloats) /\ \A v \in Range(PfFloats) : ~FloatLess(v, x)
IsLargest(x) == x \in Range(PfFloats) /\ \A v \in Range(PfFloats) : ~FloatLess(x, v)

\* x has at most below floats of the list under it and at most above over it.
IsRanked(x, below, above) ==
    /\ x \in Range(PfFloats)
    /\ Cardinality({i \in DOMAIN PfFloats : FloatLess(PfFloats[i], x)}) <= below
    /\ Cardinality({i \in DOMAIN PfFloats : FloatLess(x, PfFloats[i])}) <= above

\* The result is the one the method asks for: the minimum, the maximum, the median
\* (the middle reading, or the two middle readings added and halved), the first
\* reading, or the sum of the readings divided by their number.
ByMethod ==
    LET n == Len(PfFloats)
    IN IF pf_in.method = "min" THEN IsSmallest(pf_out.result)
       ELSE IF pf_in.method = "max" THEN IsLargest(pf_out.result)
       ELSE IF pf_in.method = "median"
       THEN IF n % 2 = 1 THEN IsRanked(pf_out.result, (n - 1) \div 2, (n - 1) \div 2)
            ELSE \E a, b \in Range(PfFloats) :
                    /\ IsRanked(a, n \div 2 - 1, n \div 2)
                    /\ IsRanked(b, n \div 2, n \div 2 - 1)
                    /\ pf_out.result = FloatDivNat(FloatAdd(a, b), 2)
       ELSE IF pf_in.method = "first" THEN pf_out.result = PfFloats[1]
       ELSE pf_out.result = FloatDivNat(FloatSum(PfFloats), n)

\* The result is not below the smallest reading and not above the largest.
WithinReadings ==
    \A v \in Range(PfFloats) :
        /\ IsSmallest(v) => ~FloatLess(pf_out.result, v)
        /\ IsLargest(v) => ~FloatLess(v, pf_out.result)

NextTo(x) == FloatSucc(pf_out.result) = x \/ FloatSucc(x) = pf_out.result

----------------------------------------------------------------------------
(* Properties of the entry into boost (specification Spec)                  *)

\* The offset with which boost is entered under the cycle's profile.
EntryOffset(p) ==
    IF cyc[p].control_type = TYPE_NORMAL
    THEN Min2(_opt("step_offset"), _opt("max_offset"))
    ELSE _opt("max_offset")

\* C29: when the pass of a cycle over a controlled room takes the room from idle
\* or hold to boost, also from hold after a drift past the hysteresis edge, the
\* room's current_offset after the pass is min(step_offset, max_offset) under
\* profile normal and max_offset under profiles fast and extreme.
C29_BoostEntryOffset ==
    [][\A p \in Requesters, room_id \in Rooms :
          ( /\ ProcessesRoom(p, room_id)
            /\ Controlled(p, room_id)
            /\ runtime[room_id].phase \in {PHASE_IDLE, PHASE_HOLD}
            /\ runtime'[room_id].phase = PHASE_BOOST )
          => runtime'[room_id].current_offset = EntryOffset(p)]_vars

----------------------------------------------------------------------------
(* Properties of the boost marker (specification Spec)                      *)

\* C30: when a control cycle has returned, every room in boost has its
\* boost_started_at set, and every room in hold has none.
C30_BoostMarker ==
    CycleReturned =>
        \A room_id \in Rooms :
            /\ runtime[room_id].phase = PHASE_BOOST =>
                  runtime[room_id].boost_started_at # None
            /\ runtime[room_id].phase = PHASE_HOLD =>
                  runtime[room_id].boost_started_at = None

----------------------------------------------------------------------------
(* Properties of the boost clock over several cycles (specification SpecRoom) *)

\* C31: the elapsed_boost_seconds that a room now in boost gave to its last call
\* of next_phase_and_offset is no more than the time since the room last went
\* from another phase to boost.
C31_ElapsedFromEntry ==
    \A room_id \in DOMAIN runtime :
        runtime[room_id].phase = PHASE_BOOST =>
            runtime[room_id].elapsed_boost_seconds <= now - runtime[room_id].boost_entered_at

----------------------------------------------------------------------------
(* Properties of a cycle that raises (specification SpecFail)               *)

\* The step is one of caller p inside its cycle.
StepsCycle(p) == InCycle(p) /\ <<pc[p], cyc[p]>> # <<pc'[p], cyc'[p]>>

\* No caller stays inside a cycle for ever: the passes and the arbitration of a
\* cycle that has begun are run, to the cycle's return or to its failure.
CyclesEnd == \A p \in Requesters : []<>(~InCycle(p))

\* C32: a cycle that an exception leaves ends as a reported failure with the lock
\* released and the report of the last cycle that returned still in place.  A
\* caller that waits gets to run: the lock is held only by a caller inside its
\* cycle, every step of a cycle is a pass over the next room, the end of the
\* cycle or its failure, and if the cycles that begin come to their end, whether
\* by return or by failure, every caller that waits for the lock gets inside.
C32_FailedCycleReleases ==
    /\ CyclesEnd => \A q \in Requesters : (pc[q] = "waiting") ~> InCycle(q)
    /\ [][\A p \in Requesters :
              (InCycle(p) /\ pc'[p] = "failed") => (lock' = NoHolder /\ data' = data)]_vars
    /\ [](\A p \in Requesters : lock = p => InCycle(p))
    /\ [][\A p \in Requesters :
              StepsCycle(p) =>
                  \/ pc'[p] \in {"idle", "failed"} /\ lock' = NoHolder
                  \/ pc'[p] = "rooms" /\ cyc'[p].idx = cyc[p].idx + 1
                  \/ pc[p] = "rooms" /\ pc'[p] = "shared"]_vars

\* One caller's cycle has failed after a cycle had published its report, and the
\* other caller's cycle runs.
C32_Witness ==
    /\ pc["timer"] = "failed"
    /\ pc["refresh"] = "rooms"
    /\ data # NoData

\* The step is a pass of caller p's loop that adds no report for its room, or an
\* arbitration of p that does not return: an exception has ended it.
Raises(p) ==
    /\ StepsCycle(p)
    /\ \/ pc[p] = "rooms" /\ Len(cyc'[p].room_payload) # Len(cyc[p].room_payload) + 1
       \/ pc[p] = "shared" /\ pc'[p] # "idle"

\* Who issues the calls of a step of caller p: the room of the pass, or the
\* arbitration.
IssuerOf(p) == IF pc[p] = "rooms" THEN _rooms[cyc[p].idx].room_id ELSE "shared"

\* C33: when a pass of the loop or the arbitration raises, nothing more of that
\* cycle is run, and no call is issued until the next cycle starts; the calls issued
\* before stay issued, the failing pass adds at most calls of its own, and a device's
\* last_action_time stays unless a call of the failing pass went through to it.
C33_AbortWithoutRollback ==
    /\ [][\A p \in Requesters :
              Raises(p) =>
                  /\ \A q \in Requesters : pc'[q] \notin {"rooms", "shared"}
                  /\ Len(calls') >= Len(calls)
                  /\ SubSeq(calls', 1, Len(calls)) = calls
                  /\ \A k \in (Len(calls) + 1)..Len(calls') : calls'[k].by = IssuerOf(p)
                  /\ \A e \in Entities :
                         \/ device_state'[e] = device_state[e]
                         \/ /\ device_state'[e] = now
                            /\ \E k \in (Len(calls) + 1)..Len(calls') :
                                   calls'[k].entity_id = e]_vars
    /\ [][(\A q \in Requesters : ~InCycle(q) /\ pc'[q] \notin {"rooms", "shared"})
              => (calls' = calls /\ device_state' = device_state)]_vars

\* The only cycle so far has failed after the pass over r1 was done: the calls of
\* r1 are issued and their times recorded.
C33_Witness ==
    /\ cycles = 1
    /\ pc["timer"] = "failed"
    /\ runtime["r1"].active_devices # <<>>
    /\ calls # <<>>
    /\ \A k \in DOMAIN calls :
           calls[k].by = "r1" /\ device_state[calls[k].entity_id] = calls[k].time

----------------------------------------------------------------------------
(* Properties of a room within tolerance (specification SpecRoom)           *)

\* The room's reading is within its tolerance of its target.
WithinTolerance(room_id) ==
    /\ ~NoReading(room_id)
    /\ within_target(_read_room_temperature(RoomOf(room_id)), _room_target(room_id),
                     _room_tolerance(room_id))

\* The calls that the step adds to those of the cycle.
AddedCalls == SubSeq(calls', Len(calls) + 1, Len(calls'))

\* The step sends the entity this service.
Sends(entity_id, domain, service) ==
    \E k \in DOMAIN AddedCalls :
        /\ AddedCalls[k].entity_id = entity_id
        /\ AddedCalls[k].domain = domain
        /\ AddedCalls[k].service = service

\* The off_scripts of the room's dumb devices whose participation is not off.
OffScripts(room) ==
    {room.dumb_devices[i].off_script :
        i \in {j \in DOMAIN room.dumb_devices :
                  room.dumb_devices[j].participation # DUMB_PARTICIPATION_OFF}}

\* C34: in a cycle in which a controlled room is within tolerance, the room is in
\* hold without a demand; each climate entity of its category lists that it does
\* not list as shared is sent turn_off exactly if anti-flapping lets it through and
\* its state is not off; the off_script of each dumb device whose participation is
\* not off is run exactly if anti-flapping lets it through; and the pass sends
\* nothing else, so no activation command.
C34_AfterReachTurnsOff ==
    [][\A p \in Requesters, room_id \in Rooms :
          (ProcessesRoom(p, room_id) /\ ~LeftOut(p, room_id) /\ WithinTolerance(room_id)) =>
              LET room == RoomOf(room_id)
                  own == (AllCategoryEntities(room) \cap Climates)
                             \ Range(room.shared_climates)
              IN /\ runtime'[room_id].phase = PHASE_HOLD
                 /\ AddedReport(p).demand = "none"
                 /\ runtime'[room_id].active_devices = <<>>
                 /\ \A e \in own :
                        Sends(e, "climate", "turn_off")
                            <=> (MayAct(e) /\ hass[e].state # "off")
                 /\ \A e \in OffScripts(room) :
                        Sends(e, "script", "turn_on") <=> MayAct(e)
                 /\ \A k \in DOMAIN AddedCalls :
                        /\ AddedCalls[k].by = room_id
                        /\ \/ /\ AddedCalls[k].entity_id \in own
                              /\ AddedCalls[k].domain = "climate"
                              /\ AddedCalls[k].service = "turn_off"
                           \/ /\ AddedCalls[k].entity_id \in OffScripts(room)
                              /\ AddedCalls[k].domain = "script"
                              /\ AddedCalls[k].service = "turn_on"]_vars

\* r1 was heated by its own unit and reads its target in a later cycle: the unit,
\* which has carried the heating out, is turned off and the off_scripts of the
\* heater and of the fan are run; the heater that is out of participation and the
\* shared floor unit get nothing from the room.
C34_Witness ==
    /\ CycleReturned
    /\ WithinTolerance("r1")
    /\ runtime["r1"].phase = PHASE_HOLD
    /\ \E k \in DOMAIN calls :
          /\ calls[k].by = "r1"
          /\ calls[k].entity_id = "climate.ac1"
          /\ calls[k].service = "turn_off"
    /\ \E k \in DOMAIN calls :
          calls[k].by = "r1" /\ calls[k].entity_id = "script.heater1_off"
    /\ \E k \in DOMAIN calls :
          calls[k].by = "r1" /\ calls[k].entity_id = "script.fan1_off"
    /\ \A k \in DOMAIN calls :
          calls[k].by = "r1" =>
              calls[k].entity_id \notin {"script.old_off", "climate.floor"}

----------------------------------------------------------------------------
(* Properties of _load_configuration (specification SpecConfig)             *)

\* The step is a call of _load_configuration.
LoadsConfiguration == changes' = changes + 1

\* The rooms that list the climate entity as shared, by the rooms' own lists.
ListedShared(rooms, climate_id) ==
    {rooms[i].room_id : i \in {j \in 1..Len(rooms) :
                                  climate_id \in Range(rooms[j].shared_climates)}}

\* After _load_configuration the room map and the shared-device map are those of
\* the configuration loaded, every configured room has a RoomRuntime, every
\* RoomRuntime there was is unchanged, and a room that had none has a new one.
LoadRebuilds ==
    [][LoadsConfiguration =>
          /\ _rooms' \in ConfigChoices
          /\ \A climate_id \in Climates :
                Range(_shared_map'[climate_id]) = ListedShared(_rooms', climate_id)
          /\ RoomIdsOf(_rooms') \subseteq DOMAIN runtime'
          /\ \A room_id \in DOMAIN runtime : runtime'[room_id] = runtime[room_id]
          /\ \A room_id \in (DOMAIN runtime') \ (DOMAIN runtime) :
                runtime'[room_id] = NewRoomRuntime]_vars

----------------------------------------------------------------------------
(* Properties of the phase at the end of a cycle (specification Spec)       *)

\* The reasons reported for a room that the cycle passed over.
ExcludedReasons == {"no_temperature", "mode_off", "room_disabled"}

----------------------------------------------------------------------------
(* Properties of the direction of a room's demand (specification Spec)      *)

HeatNeeded(room_id) ==
    /\ ~NoReading(room_id)
    /\ _room_target(room_id) - _read_room_temperature(RoomOf(room_id))
           > _room_tolerance(room_id)

CoolNeeded(room_id) ==
    /\ ~NoReading(room_id)
    /\ _read_room_temperature(RoomOf(room_id)) - _room_target(room_id)
           > _room_tolerance(room_id)

\* C37: with a tolerance of at least 0 a room does not need heat and cooling at
\* once; at most one of active_category_heat and active_category_cool of a room
\* is non-zero and each is in 0..3; the pass over a room leaves both 0 if the
\* room is excluded or within tolerance, and otherwise the one of the direction
\* of the demand in 1..3 and the other 0.
C37_DirectionExclusive ==
    /\ [](\A room_id \in Rooms :
              /\ _room_tolerance(room_id) >= 0 => ~(HeatNeeded(room_id) /\ CoolNeeded(room_id))
              /\ runtime[room_id].active_category_heat \in 0..3
              /\ runtime[room_id].active_category_cool \in 0..3
              /\ \/ runtime[room_id].active_category_heat = 0
                 \/ runtime[room_id].active_category_cool = 0)
    /\ [][\A p \in Requesters, room_id \in Rooms :
              ProcessesRoom(p, room_id) =>
                  LET heat == runtime'[room_id].active_category_heat
                      cool == runtime'[room_id].active_category_cool
                  IN IF LeftOut(p, room_id) \/ NoReading(room_id) \/ WithinTolerance(room_id)
                     THEN heat = 0 /\ cool = 0
                     ELSE IF HeatNeeded(room_id)
                     THEN heat \in 1..3 /\ cool = 0 /\ AddedReport(p).demand = "heat"
                     ELSE heat = 0 /\ cool \in 1..3 /\ AddedReport(p).demand = "cool"]_vars

\* r1 was heated in category 3 by the cycle before and reads 24.0 C now: the
\* cycle has cooled it and its heating category is 0 again.
C37_Witness ==
    /\ CycleReturned
    /\ cycles = 2
    /\ data.rooms # <<>>
    /\ CoolNeeded("r1")
    /\ ReportOf("r1").demand = "cool"
    /\ runtime["r1"].active_category_cool \in 1..3
    /\ runtime["r1"].active_category_heat = 0
    /\ last_call["script.heater1_on"] # None

----------------------------------------------------------------------------
(* Properties of last_action_time (specification SpecFail)                  *)

\* The step sends the entity a service call.
SendsTo(entity_id) == \E k \in DOMAIN AddedCalls : AddedCalls[k].entity_id = entity_id

\* C38: the last_action_time of a device changes only in a step that sends the
\* device a service call, and it changes to the current time; so a step that
\* sends a device nothing, whatever it attempted and dropped, leaves the
\* last_action_time of that device as it was.
C38_CooldownFrame ==
    [][\A entity_id \in Entities :
          /\ device_state'[entity_id] # device_state[entity_id] =>
                 SendsTo(entity_id) /\ device_state'[entity_id] = now
          /\ ~SendsTo(entity_id) => device_state'[entity_id] = device_state[entity_id]]_vars

\* r1 needs heat one second after its own unit was commanded: the pass has
\* attempted the unit again and anti-flapping has dropped the attempt, and the
\* unit's last_action_time is still that of the command.
C38_Witness ==
    /\ pc["timer"] = "rooms"
    /\ cyc["timer"].idx = 2
    /\ HeatNeeded("r1")
    /\ runtime["r1"].active_category_heat = 3
    /\ now = 1
    /\ device_state["climate.ac1"] = 0
    /\ \A k \in DOMAIN calls : calls[k].entity_id # "climate.ac1"

----------------------------------------------------------------------------
(* Properties of the ramp of the normal profile (specification SpecRamp)    *)

\* The room is in boost with the normal profile and its marker is set early
\* enough for the clock to get t_time past it.
Ramping(room_id) ==
    /\ _opt("type") = TYPE_NORMAL
    /\ ~WithinTolerance(room_id)
    /\ runtime[room_id].phase = PHASE_BOOST
    /\ runtime[room_id].boost_started_at # None
    /\ runtime[room_id].boost_started_at + _opt("t_time") <= RpMaxTime

AtMaxOffset(room_id) ==
    runtime[room_id].phase = PHASE_BOOST
        /\ runtime[room_id].current_offset = _opt("max_offset")

\* The timer's cycles go on without end, each to its return.
CyclesKeepRunning == []<>(pc["timer"] = "rooms") /\ []<>(pc["timer"] = "idle")

\* C39: with the normal profile and settings that stay as they are, the offset
\* of a room that is in boost before and after a step is not lower after it, and
\* an offset at max_offset stays there; and a room that does not reach its target
\* while the timer keeps firing and the clock moves on gets to max_offset.
C39_RampProgress ==
    /\ [][\A room_id \in Rooms :
              (/\ _opt("type") = TYPE_NORMAL
               /\ runtime[room_id].phase = PHASE_BOOST
               /\ runtime'[room_id].phase = PHASE_BOOST) =>
                  /\ runtime'[room_id].current_offset >= runtime[room_id].current_offset
                  /\ AtMaxOffset(room_id) =>
                         runtime'[room_id].current_offset = _opt("max_offset")]_vars
    /\ CyclesKeepRunning => \A room_id \in Rooms : Ramping(room_id) ~> AtMaxOffset(room_id)

\* r2 reads 20.0 C throughout: its offset has gone from 0.5 in steps of 0.5 to
\* max_offset = 2.0, two seconds and more after its marker was set.
C39_Witness ==
    /\ CycleReturned
    /\ ~WithinTolerance("r2")
    /\ _opt("step_offset") = 5
    /\ _opt("max_offset") = 20
    /\ runtime["r2"].phase = PHASE_BOOST
    /\ runtime["r2"].current_offset = 20
    /\ runtime["r2"].boost_started_at # None
    /\ now - runtime["r2"].boost_started_at >= _opt("t_time")

----------------------------------------------------------------------------
(* Properties of the decisions for a shared device (specification           *)
(* SpecConfig)                                                             *)

\* Some configured room lists the climate entity among its shared_climates.
ListedAsShared(entity_id) ==
    \E i \in 1..Len(_rooms) : entity_id \in Range(_rooms[i].shared_climates)

\* The call is one of _async_set_climate.
SetsClimate(call) == call.service \in {"set_hvac_mode", "set_temperature"}

\* C40: in a cycle, whatever the rooms' category lists and shared lists are, a
\* climate device that some room lists as shared gets its set-climate calls from
\* the arbitration only, and from one command of it: the arbitration decides once
\* for the device, and no room's pass sets it.
C40_SingleSharedDecision ==
    /\ \A i, j \in DOMAIN arbitration :
          arbitration[i].entity_id = arbitration[j].entity_id => i = j
    /\ \A k \in DOMAIN calls :
          (SetsClimate(calls[k]) /\ ListedAsShared(calls[k].entity_id)) =>
              /\ calls[k].by = "shared"
              /\ \A m \in DOMAIN calls :
                    (SetsClimate(calls[m]) /\ calls[m].entity_id = calls[k].entity_id) =>
                        calls[m].inv = calls[k].inv

====
